---- MODULE Spec2Model ----
(***************************************************************************)
(* Free Mode pipeline of smaug: src/free-mode/pipeline.js                  *)
(* (FreeModePipeline) and src/free-mode/openrouter-client.js               *)
(* (OpenRouterClient).  JavaScript strings are TLA+ strings; substring     *)
(* tests, lowercasing, trimming and splitting are computed character by    *)
(* character.                                                              *)
(***************************************************************************)
EXTENDS Integers, Sequences, FiniteSets, TLC

VARIABLES
  call,         \* the function under way: "process", or "pending"/"returned" for a single call
  args,         \* the arguments of a single call
  ret,          \* the value returned by the last call
  pc,           \* where process() stands: "idle" or "loop"
  archive,      \* the text of the archive file bookmarks.md ("" when absent)
  files,        \* the documents written: path |-> content
  existingIds,  \* the Set existingIds of process()
  bookmarks,    \* the argument of process()
  cursor,       \* the position of the loop in bookmarks
  results,      \* the array results of process()
  run,          \* number of calls of process() so far
  outcomes,     \* what became of each bookmark of this run, in input order
  counts        \* per bookmark id, over all runs: results, writes, archive entries

pipelineVars == <<pc, archive, files, existingIds, bookmarks, cursor, results, run, outcomes, counts>>

vars == <<call, args, ret, pc, archive, files, existingIds, bookmarks, cursor, results, run, outcomes, counts>>

(***************************************************************************)
(* JavaScript values that are not strings.                                 *)
(***************************************************************************)

\* `undefined` used as a property key is the string "undefined"
Undefined == "undefined"

\* `null`
Null == "null"

\* nothing returned yet
NoValue == [pending |-> TRUE]

\* categoryMap['constructor'] is the inherited Object function; as a property key:
ObjectConstructorKey == "function Object() { [native code] }"

\* categoryMap['__proto__'] is Object.prototype; as a property key:
ObjectPrototypeKey == "[object Object]"

(***************************************************************************)
(* String primitives: the methods of String.prototype the code uses       *)
(***************************************************************************)

Min(S) == CHOOSE x \in S : \A y \in S : x <= y

Max(S) == CHOOSE x \in S : \A y \in S : x >= y

Chr(s, i) == SubSeq(s, i, i)

\* the characters of s at positions i..j that exist
Substring(s, i, j) == SubSeq(s, IF i < 1 THEN 1 ELSE i, IF j > Len(s) THEN Len(s) ELSE j)

\* s.includes(p)
Includes(s, p) == \E i \in 1..(Len(s) - Len(p) + 1) : SubSeq(s, i, i + Len(p) - 1) = p

\* s.indexOf(p, from), 1-based; 0 when there is no occurrence (-1 in JavaScript)
IndexOfFrom(s, p, from) ==
  LET hits == {i \in from..(Len(s) - Len(p) + 1) : SubSeq(s, i, i + Len(p) - 1) = p}
  IN IF hits = {} THEN 0 ELSE Min(hits)

IndexOf(s, p) == IndexOfFrom(s, p, 1)

\* s.lastIndexOf(p), 1-based; 0 when there is no occurrence
LastIndexOf(s, p) ==
  LET hits == {i \in 1..(Len(s) - Len(p) + 1) : SubSeq(s, i, i + Len(p) - 1) = p}
  IN IF hits = {} THEN 0 ELSE Max(hits)

\* s.slice(0, n)
SliceTo(s, n) == SubSeq(s, 1, IF n < Len(s) THEN n ELSE Len(s))

UpperAlphabet == "ABCDEFGHIJKLMNOPQRSTUVWXYZ"

LowerAlphabet == "abcdefghijklmnopqrstuvwxyz"

LowerChar(c) ==
  LET i == IndexOf(UpperAlphabet, c)
  IN IF c = "" \/ i = 0 THEN c ELSE Chr(LowerAlphabet, i)

RECURSIVE ToLowerCase(_)
\* s.toLowerCase()
ToLowerCase(s) ==
  IF Len(s) <= 1 THEN LowerChar(s)
  ELSE LET h == Len(s) \div 2
       IN ToLowerCase(SubSeq(s, 1, h)) \o ToLowerCase(SubSeq(s, h + 1, Len(s)))

\* the characters matched by \s
Whitespace == {" ", "\t", "\n", "\r"}

IsWs(c) == c \in Whitespace

\* s.trim()
Trim(s) ==
  LET keep == {i \in 1..Len(s) : ~IsWs(Chr(s, i))}
  IN IF keep = {} THEN "" ELSE SubSeq(s, Min(keep), Max(keep))

RECURSIVE SplitWhitespace(_)
\* s.split(/\s+/)
SplitWhitespace(s) ==
  LET n == Len(s)
      ws == {i \in 1..n : IsWs(Chr(s, i))}
  IN IF ws = {} THEN <<s>>
     ELSE LET a == Min(ws)
              rest == {i \in a..n : ~IsWs(Chr(s, i))}
              b == IF rest = {} THEN n + 1 ELSE Min(rest)
          IN <<SubSeq(s, 1, a - 1)>> \o SplitWhitespace(SubSeq(s, b, n))

\* some element of the sequence of patterns occurs in s (a chain of `||` of includes)
IncludesAny(s, patterns) == \E k \in 1..Len(patterns) : Includes(s, patterns[k])

(***************************************************************************)
(* JSON values.  A value is a tagged record; an object is the sequence of  *)
(* its <<key, value>> members in document order.                           *)
(***************************************************************************)

JString(s) == [t |-> "string", s |-> s]

JNumber(n) == [t |-> "number", n |-> n]

JNull == [t |-> "null"]

JArray(items) == [t |-> "array", items |-> items]

JObject(members) == [t |-> "object", members |-> members]

\* obj.key: the value of the last member named key, JavaScript's undefined when there is none
JUndefined == [t |-> "undefined"]

Member(obj, key) ==
  LET hits == {i \in 1..Len(obj.members) : obj.members[i][1] = key}
  IN IF hits = {} THEN JUndefined ELSE obj.members[Max(hits)][2]

\* !v is false
Truthy(v) ==
  CASE v.t = "string" -> v.s # ""
    [] v.t = "number" -> v.n # 0
    [] v.t = "boolean" -> v.b
    [] v.t \in {"array", "object"} -> TRUE
    [] OTHER -> FALSE

Digits == "0123456789"

RECURSIVE NatToString(_)
NatToString(n) == IF n < 10 THEN Chr(Digits, n + 1) ELSE NatToString(n \div 10) \o Chr(Digits, (n % 10) + 1)

RECURSIVE JoinStrings(_, _)
\* parts.join(sep)
JoinStrings(parts, sep) ==
  IF parts = <<>> THEN ""
  ELSE IF Len(parts) = 1 THEN parts[1]
  ELSE parts[1] \o sep \o JoinStrings(Tail(parts), sep)

RECURSIVE Stringify(_)
\* the JSON text of a value (strings of the model need no escapes)
Stringify(v) ==
  CASE v.t = "string" -> "\"" \o v.s \o "\""
    [] v.t = "number" -> NatToString(v.n)
    [] v.t = "boolean" -> IF v.b THEN "true" ELSE "false"
    [] v.t = "null" -> "null"
    [] v.t = "array" -> "[" \o JoinStrings([i \in 1..Len(v.items) |-> Stringify(v.items[i])], ", ") \o "]"
    [] v.t = "object" ->
         "{" \o JoinStrings([i \in 1..Len(v.members) |->
                   "\"" \o v.members[i][1] \o "\": " \o Stringify(v.members[i][2])], ", ") \o "}"

(***************************************************************************)
(* The JSON documents a reasoning provider answers with                    *)
(***************************************************************************)

\* a field left out of the object
Absent == [t |-> "absent"]

TitleValues ==
  { Absent, JString("Test"), JString("  Padded Title "), JString("   "), JString(""), JNumber(7), JNull }

SummaryValues == { Absent, JString("Test summary"), JString("  "), JNumber(0) }

CategoryValues == { Absent, JString("Test"), JString(" GitHub "), JString(" "), JArray(<<>>) }

TagsValues ==
  { Absent, JString("test"), JNull, JArray(<<>>), JArray(<<JString("test")>>),
    JArray(<<JString(" a "), JString(""), JString("  "), JString("b-c ")>>),
    JArray(<<JString("x"), JNumber(1)>>) }

\* the object with the given fields, in the member order the prompt asks for
ReasoningObject(title, summary, tags, category) ==
  JObject(SelectSeq(<< <<"title", title>>, <<"summary", summary>>, <<"tags", tags>>, <<"category", category>> >>,
                    LAMBDA m : m[2] # Absent))

JsonObjects ==
  { ReasoningObject(ti, su, ta, ca) : ti \in TitleValues, su \in SummaryValues, ta \in TagsValues, ca \in CategoryValues }

\* the answers the provider gives in a run of the pipeline
ProviderAnswers ==
  { ReasoningObject(JString("Handy Notes"), JString("Worth a read"), JArray(<<JString("notes")>>), JString("Article")),
    ReasoningObject(JString("Big news today"), JString("Quiet day"), JArray(<<>>), JString("General")) }

JsonDocuments == JsonObjects \cup ProviderAnswers \cup { JNull, JArray(<<>>) }

\* the text of every document
JsonText == {<<Stringify(v), v>> : v \in JsonDocuments}

JsonTexts == {p[1] : p \in JsonText}

\* JSON.parse(text): the document written as text; any other text of the model is a SyntaxError
JSONParse(text) ==
  IF text \in JsonTexts
    THEN [ok |-> TRUE, value |-> (CHOOSE p \in JsonText : p[1] = text)[2]]
    ELSE [ok |-> FALSE, error |-> "SyntaxError"]

(***************************************************************************)
(* OpenRouterClient._parseOutput                                           *)
(***************************************************************************)

\* a string literal of this language cannot hold the grave accent U+0060: the
\* character ^, which no other text of the model contains, stands for it
Backtick == "^"

Fence == Backtick \o Backtick \o Backtick

\* cleaned.match(/(fence)(?:json)?\s*([\s\S]*?)\s*(fence)/): group 1 trimmed,
\* or the text itself when there is no pair of fences
StripFence(cleaned) ==
  LET open == IndexOf(cleaned, Fence)
      afterFence == open + 3
      start == IF Substring(cleaned, afterFence, afterFence + 3) = "json" THEN afterFence + 4 ELSE afterFence
      close == IF open = 0 THEN 0 ELSE IndexOfFrom(cleaned, Fence, start)
  IN IF open = 0 \/ close = 0 THEN cleaned ELSE Trim(SubSeq(cleaned, start, close - 1))

\* cleaned.substring(firstBrace, lastBrace + 1) when both braces occur
\* (substring swaps its arguments when the first is the larger)
SliceBraces(cleaned) ==
  LET firstBrace == IndexOf(cleaned, "{")
      lastBrace == LastIndexOf(cleaned, "}")
  IN IF firstBrace = 0 \/ lastBrace = 0 THEN cleaned
     ELSE IF firstBrace - 1 > lastBrace THEN SubSeq(cleaned, lastBrace + 1, firstBrace - 1)
     ELSE SubSeq(cleaned, firstBrace, lastBrace)

\* parsed.f of the parsed document
Field(parsed, f) == IF parsed.t = "object" THEN Member(parsed, f) ELSE JUndefined

\* !parsed.f || typeof parsed.f !== 'string'
InvalidString(v) == ~Truthy(v) \/ v.t # "string"

Failure(message) == [ok |-> FALSE, error |-> message]

MissingOrInvalid(f) == "Missing or invalid \"" \o f \o "\" field"

InvalidTags == "Invalid \"tags\" field: must be array"

\* parsed.tags.map(t => t.trim()).filter(Boolean)
NormalizeTags(items) ==
  LET trimmed == [i \in 1..Len(items) |-> Trim(items[i].s)]
  IN SelectSeq(trimmed, LAMBDA t : t # "")

\* the checks with summary tested before title
ValidateSummaryFirst(parsed) ==
  IF parsed.t \in {"null", "undefined"} THEN Failure("TypeError")
  ELSE IF InvalidString(Field(parsed, "summary")) THEN Failure(MissingOrInvalid("summary"))
  ELSE IF InvalidString(Field(parsed, "title")) THEN Failure(MissingOrInvalid("title"))
  ELSE IF InvalidString(Field(parsed, "category")) THEN Failure(MissingOrInvalid("category"))
  ELSE IF Field(parsed, "tags").t # "array" THEN Failure(InvalidTags)
  ELSE IF \E i \in 1..Len(Field(parsed, "tags").items) : Field(parsed, "tags").items[i].t # "string"
    THEN Failure("TypeError")
  ELSE [ok |-> TRUE,
        value |-> [kind |-> "record",
                   title |-> Trim(Field(parsed, "title").s),
                   summary |-> Trim(Field(parsed, "summary").s),
                   tags |-> NormalizeTags(Field(parsed, "tags").items),
                   category |-> Trim(Field(parsed, "category").s)]]

\* the four checks in the order of the code, then the normalized record
Validate(parsed) ==
  IF parsed.t \in {"null", "undefined"} THEN Failure("TypeError")
  ELSE IF InvalidString(Field(parsed, "title")) THEN Failure(MissingOrInvalid("title"))
  ELSE IF InvalidString(Field(parsed, "summary")) THEN Failure(MissingOrInvalid("summary"))
  ELSE IF InvalidString(Field(parsed, "category")) THEN Failure(MissingOrInvalid("category"))
  ELSE IF Field(parsed, "tags").t # "array" THEN Failure(InvalidTags)
  ELSE IF \E i \in 1..Len(Field(parsed, "tags").items) : Field(parsed, "tags").items[i].t # "string"
    THEN Failure("TypeError")
  ELSE [ok |-> TRUE,
        value |-> [kind |-> "record",
                   title |-> Trim(Field(parsed, "title").s),
                   summary |-> Trim(Field(parsed, "summary").s),
                   tags |-> NormalizeTags(Field(parsed, "tags").items),
                   category |-> Trim(Field(parsed, "category").s)]]

_parseOutput(rawOutput) ==
  LET parsed == JSONParse(SliceBraces(StripFence(Trim(rawOutput))))
  IN IF parsed.ok THEN Validate(parsed.value) ELSE parsed

(***************************************************************************)
(* OpenRouterClient.getReasoning.  What the provider does with one request *)
(* is a record: apiKey (a key is configured), transport ("response": the   *)
(* fetch resolves; "abort": the timer aborts it first; "reject": it        *)
(* rejects), ok (response.ok), body ("json": a completion object; "shape": *)
(* JSON without choices[0].message.content; "invalid": not JSON) and       *)
(* content (the text of the completion).                                   *)
(***************************************************************************)

\* the timeout the pipeline passes
ReasoningTimeout == 20000

getReasoning(prompt, timeout, response) ==
  IF ~response.apiKey THEN Failure("OPENROUTER_API_KEY not configured")
  ELSE IF response.transport = "abort"
    THEN Failure("OpenRouter timeout after " \o NatToString(timeout) \o "ms")
  ELSE IF response.transport = "reject" THEN Failure("fetch failed")
  ELSE IF response.body = "invalid" THEN Failure("SyntaxError")
  ELSE IF ~response.ok THEN Failure("OpenRouter API error: " \o response.content)
  ELSE IF response.body = "shape" THEN Failure("TypeError")
  ELSE _parseOutput(response.content)

(***************************************************************************)
(* FreeModePipeline._buildPrompt, _generateDefaultMetadata, _getReasoning  *)
(***************************************************************************)

\* bookmark.links?.[0], a record without fields when there is no link
HasLinks(bookmark) == "links" \in DOMAIN bookmark /\ Len(bookmark.links) > 0

\* bookmark.tags || []
BookmarkTags(bookmark) == IF "tags" \in DOMAIN bookmark THEN bookmark.tags ELSE <<>>

ContextInfo(bookmark, field, verb) ==
  IF field \in DOMAIN bookmark
    THEN "\n\n" \o verb \o " @" \o bookmark[field].author \o ": \"" \o SliceTo(bookmark[field].text, 120) \o "\""
    ELSE ""

_buildPrompt(bookmark) ==
  LET linkInfo == IF HasLinks(bookmark)
                    THEN "\n\nLinks: " \o JoinStrings([i \in 1..Len(bookmark.links) |-> bookmark.links[i].expanded], "\n")
                    ELSE ""
      replyInfo == ContextInfo(bookmark, "replyContext", "Replying to")
      quoteInfo == ContextInfo(bookmark, "quoteContext", "Quoting")
  IN "Analyze this tweet and extract metadata for bookmark organization.\n\nTweet by: @" \o bookmark.author
       \o "\nTweet text: " \o bookmark.text \o linkInfo \o replyInfo \o quoteInfo
       \o "\n\nReturn JSON object with:\n- title: Clean, concise title (max 60 chars, no hashtags)\n"
       \o "- summary: 1-2 sentence summary of the content\n"
       \o "- tags: Array of 2-4 relevant tags (lowercase, hyphenated)\n"
       \o "- category: One of: GitHub, Article, Video, Podcast, Tool, General"

\* the domain lists tested on the first link, in order, with the category each gives
GithubDomains == <<"github.com", "npmjs.com", "pypi.org", "gitlab.com", "bitbucket.org">>

ArticleDomains == <<"medium.com", "substack.com", "dev.to", "blog.", "hackernoon.com", "freecodecamp.org">>

YoutubeDomains == <<"youtube.com", "youtu.be">>

PodcastDomains == <<"podcasts.apple.com", "spotify.com/episode", "overcast.fm", "pocketcasts.com">>

OtherVideoDomains == <<"loom.com", "vimeo.com", "twitch.tv">>

\* the keyword lists tested on the lower-cased text
GithubWords == <<"github", "repo", "npm ">>

VideoWords == <<"video", "youtube", "watch">>

\* the article keywords of the branch with a first link
ArticleWordsLinked == <<"article", "blog", "post", "guide", "tutorial", "course", "resource", "learning">>

\* the article keywords of the branch without a link
ArticleWordsUnlinked == <<"article", "blog", "post", "guide", "tutorial", "course", "resource", "learning", "free">>

PodcastWords == <<"podcast", "episode">>

ToolWords == <<"library", "framework", "tool", "app", "stack", "tech">>

\* the last keyword list of the branch without a link
DealWords == <<"deal", "offer", "discount", "student", "developer">>

\* firstLink.content?.f, "" when there is none
LinkContent(link, f) ==
  IF "content" \in DOMAIN link /\ f \in DOMAIN link.content THEN link.content[f] ELSE ""

\* a || b on strings
OrElse(a, b) == IF a # "" THEN a ELSE b

\* the category and title chosen when there is a first link
DefaultsWithLink(firstLink, textLower, title) ==
  LET expandedUrl == IF "expanded" \in DOMAIN firstLink THEN firstLink.expanded ELSE ""
      linkTitle == OrElse(LinkContent(firstLink, "title"), title)
  IN IF IncludesAny(expandedUrl, GithubDomains)
       THEN [category |-> "GitHub", title |-> OrElse(LinkContent(firstLink, "name"), linkTitle)]
     ELSE IF IncludesAny(expandedUrl, ArticleDomains) THEN [category |-> "Article", title |-> linkTitle]
     ELSE IF IncludesAny(expandedUrl, YoutubeDomains) THEN [category |-> "Video", title |-> linkTitle]
     ELSE IF IncludesAny(expandedUrl, PodcastDomains) THEN [category |-> "Podcast", title |-> linkTitle]
     ELSE IF IncludesAny(expandedUrl, OtherVideoDomains) THEN [category |-> "Video", title |-> linkTitle]
     ELSE IF IncludesAny(textLower, GithubWords) THEN [category |-> "GitHub", title |-> title]
     ELSE IF IncludesAny(textLower, VideoWords) THEN [category |-> "Video", title |-> title]
     ELSE IF IncludesAny(textLower, ArticleWordsLinked) THEN [category |-> "Article", title |-> title]
     ELSE IF IncludesAny(textLower, PodcastWords) THEN [category |-> "Podcast", title |-> title]
     ELSE IF IncludesAny(textLower, ToolWords) THEN [category |-> "Tool", title |-> title]
     ELSE [category |-> "General", title |-> title]

\* the category chosen when there is no link
DefaultsWithoutLink(textLower, title) ==
  IF IncludesAny(textLower, GithubWords) THEN [category |-> "GitHub", title |-> title]
  ELSE IF IncludesAny(textLower, VideoWords) THEN [category |-> "Video", title |-> title]
  ELSE IF IncludesAny(textLower, ArticleWordsUnlinked) THEN [category |-> "Article", title |-> title]
  ELSE IF IncludesAny(textLower, PodcastWords) THEN [category |-> "Podcast", title |-> title]
  ELSE IF IncludesAny(textLower, ToolWords) THEN [category |-> "Tool", title |-> title]
  ELSE IF IncludesAny(textLower, DealWords) THEN [category |-> "Article", title |-> title]
  ELSE [category |-> "General", title |-> title]

_generateDefaultMetadata(bookmark) ==
  LET title == SliceTo(bookmark.text, 50)
      textLower == ToLowerCase(bookmark.text)
      chosen == IF HasLinks(bookmark)
                  THEN DefaultsWithLink(bookmark.links[1], textLower, title)
                  ELSE DefaultsWithoutLink(textLower, title)
  IN [kind |-> "record",
      title |-> chosen.title \o (IF Len(bookmark.text) > 50 THEN "..." ELSE ""),
      summary |-> SliceTo(bookmark.text, 150),
      tags |-> BookmarkTags(bookmark),
      category |-> chosen.category]

\* the prompt length above which the provider is not asked
ContextLimit == 3000

\* contextLength >= 3000
ContextTooLongInclusive(prompt) == Len(prompt) >= ContextLimit

\* contextLength > 3000
ContextTooLong(prompt) == Len(prompt) > ContextLimit

\* _getReasoning with what it did: called (the provider was asked), failed (the
\* request threw), reasoning (the value returned)
ReasoningTrace(bookmark, response) ==
  LET prompt == _buildPrompt(bookmark)
      answer == getReasoning(prompt, ReasoningTimeout, response)
  IN IF ContextTooLong(prompt)
       THEN [called |-> FALSE, failed |-> FALSE, reasoning |-> _generateDefaultMetadata(bookmark)]
     ELSE IF answer.ok
       THEN [called |-> TRUE, failed |-> FALSE, reasoning |-> answer.value]
     ELSE [called |-> TRUE, failed |-> TRUE, reasoning |-> _generateDefaultMetadata(bookmark)]

_getReasoning(bookmark, response) == ReasoningTrace(bookmark, response).reasoning

(***************************************************************************)
(* FreeModePipeline._matchCategory                                         *)
(***************************************************************************)

\* the object literal `categoryMap`, entries in source order
categoryMapEntries == <<
    <<"github", "github">>, <<"repo", "github">>, <<"repository", "github">>, <<"code", "github">>, <<"source", "github">>,
    <<"article", "article">>, <<"blog", "article">>, <<"post", "article">>, <<"guide", "article">>, <<"tutorial", "article">>, <<"docs", "article">>, <<"documentation", "article">>,
    <<"video", "youtube">>, <<"youtube", "youtube">>, <<"screencast", "youtube">>, <<"talk", "youtube">>, <<"presentation", "youtube">>,
    <<"podcast", "podcast">>, <<"audio", "podcast">>, <<"episode", "podcast">>, <<"interview", "podcast">>,
    <<"tool", "github">>, <<"utility", "github">>, <<"library", "github">>, <<"framework", "github">>, <<"app", "github">>, <<"service", "github">>, <<"api", "github">>, <<"package", "github">>, <<"module", "github">>,
    <<"general", "tweet">>, <<"misc", "tweet">>, <<"note", "tweet">>, <<"announcement", "tweet">>, <<"news", "tweet">>, <<"thought", "tweet">>, <<"idea", "tweet">>,
    <<"resource", "article">>, <<"resources", "article">>, <<"list", "article">>, <<"collection", "article">>,
    <<"deal", "article">>, <<"deals", "article">>, <<"offer", "article">>, <<"offers", "article">>, <<"discount", "article">>, <<"free", "article">>,
    <<"stack", "github">>, <<"techstack", "github">>, <<"tech", "github">>, <<"toolset", "github">>, <<"setup", "github">>,
    <<"course", "article">>, <<"courses", "article">>, <<"learning", "article">>, <<"learn", "article">>, <<"education", "article">>,
    <<"student", "article">>, <<"students", "article">>, <<"developer", "article">>, <<"dev", "article">>, <<"programming", "article">>,
    <<"comprehensive", "article">>, <<"complete", "article">>, <<"ultimate", "article">>, <<"guide", "article">>,
    <<"ai", "article">>, <<"ml", "article">>, <<"llm", "article">>, <<"model", "article">>, <<"claude", "article">>, <<"gemini", "article">>,
    <<"mcp", "github">>, <<"automation", "github">>, <<"blender", "github">>, <<"concept", "article">>, <<"os", "github">>,
    <<"operating", "github">>, <<"system", "github">>, <<"tip", "article">>, <<"tips", "article">>, <<"millionaires", "article">>,
    <<"shipping", "github">>, <<"products", "github">>, <<"scene", "github">>, <<"generation", "article">>,
    <<"benefits", "article">>, <<"benefits", "article">>, <<"storage", "github">>, <<"backend", "github">>,
    <<"guided", "article">>, <<"feature", "article">>, <<"hacking", "article">>, <<"beginners", "article">>,
    <<"layer", "github">>, <<"version", "github">>, <<"v3", "github">>, <<"intelligence", "article">>,
    <<"fundamental", "article">>, <<"advanced", "article">>, <<"concepts", "article">>, <<"automation", "github">>,
    <<"unlimited", "github">>, <<"cloud", "github">>, <<"telegram", "github">>, <<"backend", "github">>,
    <<"message", "github">>, <<"commit", "github">>, <<"message", "github">>, <<"vibe", "article">>,
    <<"chat", "article">>, <<"history", "article">>, <<"conversations", "article">>, <<"ragging", "article">>, <<"rag", "article">>,
    <<"vision", "article">>, <<"personal", "article">>, <<"3d", "article">>,
    <<"y combinator", "article">>, <<"yc", "article">>, <<"combinator", "article">>, <<"student deals", "article">>,
    <<"credits", "article">>, <<"startup", "article">>, <<"funding", "article">>, <<"accelerator", "article">>
  >>

\* the own keys of categoryMap
categoryMapKeys == {categoryMapEntries[i][1] : i \in 1..Len(categoryMapEntries)}

\* categoryMap[k]: the last entry written for an own key, an inherited member
\* of Object.prototype for its two lower-case names, undefined otherwise
categoryMap(k) ==
  IF k \in categoryMapKeys
    THEN categoryMapEntries[Max({i \in 1..Len(categoryMapEntries) : categoryMapEntries[i][1] = k})][2]
  ELSE IF k = "constructor" THEN ObjectConstructorKey
  ELSE IF k = "__proto__" THEN ObjectPrototypeKey
  ELSE Undefined

\* the five keyword groups of the combined-text scan, in the order they are tested
GithubIndicators == <<"github", " repo", "npm", "mcp", "automation", "/commit", "backend", "storage", "cloud", "layer", "version", "blender">>

VideoIndicators == <<"video", "youtube", "watch", "talk">>

PodcastIndicators == <<"podcast", "audio", "episode">>

ArticleIndicators == <<"article", "blog", "post", "guide", "tutorial", "course", "resource", "learning", "student", "developer", "free", "comprehensive", "ultimate", "deal", "tip", "feature", "hacking", "beginners", "generation", "fundamental", "advanced", "concept", "benefits", "intelligence", "vibe", "guided", "chat", "history", "conversations", "ragging", "vision", "personal", "3d", "millionaire">>

ToolIndicators == <<"library", "framework", "tool", " app", "stack", "tech", "products", "shipping", "operating", "system", "millionaires", "scene">>

\* the keywords of the broad topical fallback
BroadTopics == <<"ai", "student", "deal", "credit", "combinator", "y combinator", "yc", "startup", "funding", "accelerator">>

\* reasoning?.category, reasoning?.title, reasoning?.summary followed by `|| ''`
ReasoningField(reasoning, f) ==
  IF reasoning.kind = "record" /\ f \in DOMAIN reasoning THEN reasoning[f] ELSE ""

\* bookmark?.text || ''
BookmarkText(bookmark) == IF "text" \in DOMAIN bookmark THEN bookmark.text ELSE ""

\* bookmark.links || []
BookmarkLinks(bookmark) == IF "links" \in DOMAIN bookmark THEN bookmark.links ELSE <<>>

\* aiCategory without the trim()
AiCategoryUntrimmed(reasoning) == ToLowerCase(ReasoningField(reasoning, "category"))

\* aiCategory
AiCategory(reasoning) == Trim(ToLowerCase(ReasoningField(reasoning, "category")))

\* combinedText
CombinedText(bookmark, reasoning) ==
  ToLowerCase(ReasoningField(reasoning, "title")) \o " "
    \o ToLowerCase(ReasoningField(reasoning, "summary")) \o " "
    \o ToLowerCase(BookmarkText(bookmark))

\* the `if (!matchedKey) { ... }` chain over combinedText
KeywordScan(combinedText) ==
  IF IncludesAny(combinedText, GithubIndicators) THEN "github"
  ELSE IF IncludesAny(combinedText, VideoIndicators) THEN "youtube"
  ELSE IF IncludesAny(combinedText, PodcastIndicators) THEN "podcast"
  ELSE IF IncludesAny(combinedText, ArticleIndicators) THEN "article"
  ELSE IF IncludesAny(combinedText, ToolIndicators) THEN "github"
  ELSE Undefined

\* the loop over combinedText.split(/\s+/): the first word that categoryMap knows
WordFallback(combinedText, matchedKey) ==
  LET words == SplitWhitespace(combinedText)
      hits == {i \in 1..Len(words) : categoryMap(words[i]) # Undefined}
  IN IF hits = {} THEN matchedKey ELSE categoryMap(words[Min(hits)])

\* the broad topical test
BroadFallback(combinedText, matchedKey) ==
  IF IncludesAny(combinedText, BroadTopics) THEN "article" ELSE matchedKey

\* !matchedKey || matchedKey === 'tweet'
UnresolvedOrTweet(matchedKey) == matchedKey = Undefined \/ matchedKey = "tweet"

\* matchedKey when the URL scan is reached
MatchedKey(bookmark, reasoning) ==
  LET combinedText == CombinedText(bookmark, reasoning)
      k1 == categoryMap(AiCategory(reasoning))
      k2 == IF k1 = Undefined THEN KeywordScan(combinedText) ELSE k1
      k3 == IF UnresolvedOrTweet(k2) THEN WordFallback(combinedText, k2) ELSE k2
  IN IF UnresolvedOrTweet(k3) THEN BroadFallback(combinedText, k3) ELSE k3

\* category.match?.some(pattern => url.includes(pattern))
RuleMatchesUrl(rule, url) ==
  "match" \in DOMAIN rule /\ \E k \in 1..Len(rule.match) : Includes(url, rule.match[k])

\* a scan that keeps the last registry key with a matching pattern
_findCategoryByUrlLastEntry(categories, url) ==
  LET hits == {i \in 1..Len(categories.order) : RuleMatchesUrl(categories.rules[categories.order[i]], url)}
  IN IF hits = {} THEN Null ELSE categories.order[Max(hits)]

\* _findCategoryByUrl: the first registry key, in registry order, with a matching pattern
_findCategoryByUrl(categories, url) ==
  LET hits == {i \in 1..Len(categories.order) : RuleMatchesUrl(categories.rules[categories.order[i]], url)}
  IN IF hits = {} THEN Null ELSE categories.order[Min(hits)]

\* the link loop guarded like the two fallbacks before it
UrlEscapeAppliesWhenUnresolved(matchedKey) == matchedKey = Undefined \/ matchedKey = "tweet"

\* the condition guarding the loop over bookmark.links
UrlEscapeApplies(matchedKey) == matchedKey = "tweet"

\* the key found by the loop over bookmark.links, Null when the loop returns nothing
UrlEscape(bookmark, matchedKey, categories) ==
  LET links == BookmarkLinks(bookmark)
      hits == {i \in 1..Len(links) : _findCategoryByUrl(categories, links[i].expanded) # Null}
  IN IF UrlEscapeApplies(matchedKey) /\ hits # {}
       THEN _findCategoryByUrl(categories, links[Min(hits)].expanded)
       ELSE Null

\* the rule returned when nothing in the registry matches
SynthesizedRule ==
  [key |-> "tweet", action |-> "capture", folder |-> Null, match |-> <<>>,
   template |-> Null, description |-> "Plain tweets"]

\* this.categories[matchedKey] returned as it is, undefined when the key is missing
RegistryLookupNoDefault(categories, matchedKey) ==
  IF matchedKey \in DOMAIN categories.rules THEN categories.rules[matchedKey] ELSE [undefined |-> TRUE]

\* this.categories[matchedKey], or the synthesized rule
RegistryLookup(categories, matchedKey) ==
  IF matchedKey \in DOMAIN categories.rules THEN categories.rules[matchedKey] ELSE SynthesizedRule

_matchCategory(bookmark, reasoning, categories) ==
  LET matchedKey == MatchedKey(bookmark, reasoning)
      byUrl == UrlEscape(bookmark, matchedKey, categories)
  IN IF byUrl # Null THEN categories.rules[byUrl]
     ELSE RegistryLookup(categories, matchedKey)

(***************************************************************************)
(* FreeModePipeline._generateSlug                                          *)
(***************************************************************************)

LowerAlnum == "abcdefghijklmnopqrstuvwxyz0123456789"

\* the characters [a-z0-9\s-] keeps
SlugChar(c) == Includes(LowerAlnum, c) \/ IsWs(c) \/ c = "-"

RECURSIVE KeepSlugChars(_)
\* s.replace(/[^a-z0-9\s-]/g, '')
KeepSlugChars(s) ==
  IF Len(s) = 0 THEN ""
  ELSE IF Len(s) = 1 THEN (IF SlugChar(s) THEN s ELSE "")
  ELSE LET h == Len(s) \div 2
       IN KeepSlugChars(SubSeq(s, 1, h)) \o KeepSlugChars(SubSeq(s, h + 1, Len(s)))

\* s.replace(/\s+/g, '-')
HyphenateWhitespace(s) == JoinStrings(SplitWhitespace(s), "-")

\* the characters a digest is computed over, a character's code being its position
CodeAlphabet ==
  " !\"#$%&'()*+,-./0123456789:;<=>?@ABCDEFGHIJKLMNOPQRSTUVWXYZ[\\]^_abcdefghijklmnopqrstuvwxyz{|}~\n\t\r"

CharCode(c) == IndexOf(CodeAlphabet, c)

HexDigits == "0123456789abcdef"

RECURSIVE ToHex(_, _)
\* n in hexadecimal, width digits
ToHex(n, width) ==
  IF width = 0 THEN "" ELSE ToHex(n \div 16, width - 1) \o Chr(HexDigits, (n % 16) + 1)

\* the modulus of the stand-in digest
DigestModulus == 16777216

RECURSIVE DigestOf(_, _, _)
\* the digest of the characters lo..hi of s: position-weighted character codes
DigestOf(s, lo, hi) ==
  IF lo > hi THEN 0
  ELSE IF lo = hi THEN (CharCode(Chr(s, lo)) * (lo * lo + 1)) % DigestModulus
  ELSE LET mid == (lo + hi) \div 2
       IN (DigestOf(s, lo, mid) + DigestOf(s, mid + 1, hi)) % DigestModulus

\* crypto.createHash('md5').update(s).digest('hex').substring(0, 8): a
\* deterministic digest of s written as 8 hexadecimal characters (a weighted
\* sum of character codes stands for MD5)
Md5Hex8(s) == ToHex((DigestOf(s, 1, Len(s)) + 5381 * Len(s)) % DigestModulus, 8)

\* a digest input without the author
HashInputTitleOnly(title, author) == title

\* `${title}-${author}`
HashInput(title, author) == title \o "-" \o author

_generateSlug(title, author) ==
  LET slug == SliceTo(HyphenateWhitespace(Trim(KeepSlugChars(ToLowerCase(title)))), 60)
      hash == Md5Hex8(HashInput(title, author))
  IN slug \o "-" \o hash

(***************************************************************************)
(* FreeModePipeline: constructor, _writeBookmark, _generateFileContent     *)
(***************************************************************************)

RECURSIVE StripDotSlash(_)
StripDotSlash(p) == IF Substring(p, 1, 2) = "./" THEN StripDotSlash(SubSeq(p, 3, Len(p))) ELSE p

\* path.join(a, b) for paths without '..' or doubled separators
PathJoin(a, b) == StripDotSlash(a) \o "/" \o b

\* config.outputDir || './bookmarks'
outputDir == "./bookmarks"

archiveFile == PathJoin(outputDir, "bookmarks.md")

toolsDir == PathJoin(outputDir, "knowledge/tools")

\* new Date().toISOString().split('T')[0] on the day of the run
Today == "2026-01-15"

RECURSIVE EscapeQuotes(_)
\* s.replace(/"/g, '\\"')
EscapeQuotes(s) ==
  IF Len(s) = 0 THEN ""
  ELSE IF Len(s) = 1 THEN (IF s = "\"" THEN "\\\"" ELSE s)
  ELSE LET h == Len(s) \div 2
       IN EscapeQuotes(SubSeq(s, 1, h)) \o EscapeQuotes(SubSeq(s, h + 1, Len(s)))

\* JSON.stringify of an array of plain strings
StringifyTags(tags) ==
  "[" \o JoinStrings([i \in 1..Len(tags) |-> "\"" \o tags[i] \o "\""], ",") \o "]"

\* category.f || fallback
RuleField(category, f, fallback) ==
  IF f \in DOMAIN category /\ category[f] # Null /\ category[f] # "" THEN category[f] ELSE fallback

_generateFileContent(bookmark, reasoning, category) ==
  LET template == RuleField(category, "template", "tool")
      link == IF HasLinks(bookmark) /\ bookmark.links[1].expanded # ""
                THEN bookmark.links[1].expanded ELSE bookmark.tweetUrl
      description == IF HasLinks(bookmark)
                       THEN OrElse(LinkContent(bookmark.links[1], "description"), "See link for details")
                       ELSE "See link for details"
  IN "---\ntitle: \"" \o EscapeQuotes(reasoning.title) \o "\"\ntype: " \o template
       \o "\ndate_added: " \o Today \o "\nsource: \"" \o link
       \o "\"\ntags: " \o StringifyTags(reasoning.tags \o BookmarkTags(bookmark))
       \o "\nvia: \"Twitter bookmark from @" \o bookmark.author \o "\"\n---\n\n"
       \o reasoning.summary \o "\n\n## Key Features\n\n" \o description
       \o "\n\n## Links\n\n- [Original Tweet](" \o bookmark.tweetUrl \o ")\n"
       \o (IF HasLinks(bookmark) THEN "- [Link](" \o bookmark.links[1].expanded \o ")" ELSE "")

\* _writeBookmark on the documents `written` (path |-> content); writeFails: writeFileSync
\* throws.  threw, filePath (Null when nothing is written) and the files afterwards
\* a guard that lets every action but 'capture' through to the write
NoFileActionCaptureOnly(action) == action = "capture"

\* action !== 'file'
NoFileAction(action) == action # "file"

_writeBookmark(bookmark, reasoning, category, slug, written, writeFails) ==
  LET action == RuleField(category, "action", "capture")
      folder == RuleField(category, "folder", toolsDir)
      filePath == PathJoin(folder, slug \o ".md")
      content == _generateFileContent(bookmark, reasoning, category)
  IN IF NoFileAction(action) THEN [threw |-> FALSE, filePath |-> Null, files |-> written]
     ELSE IF slug = "" \/ Trim(slug) = "" THEN [threw |-> TRUE, filePath |-> Null, files |-> written]
     ELSE IF writeFails THEN [threw |-> TRUE, filePath |-> Null, files |-> written]
     ELSE [threw |-> FALSE, filePath |-> filePath,
           files |-> [q \in (DOMAIN written) \cup {filePath} |->
                        IF q = filePath THEN content \o "\n" ELSE written[q]]]

(***************************************************************************)
(* FreeModePipeline._appendToArchive, _insertIntoArchive, _loadExistingIds *)
(***************************************************************************)

\* the insertion that writes a new section whether or not the heading exists
_insertIntoArchiveNewSection(content, date, entry) ==
  "# " \o date \o "\n\n" \o entry \o "\n\n" \o content

\* content of the archive file after _insertIntoArchive(date, entry); a
\* missing file reads as the empty document
_insertIntoArchive(content, date, entry) ==
  LET dateHeader == "# " \o date
      dateIndex == IndexOf(content, dateHeader)
      insertPos == IndexOfFrom(content, "\n", dateIndex) + 1
  IN IF dateIndex # 0
       THEN SubSeq(content, 1, insertPos - 1) \o entry \o "\n" \o SubSeq(content, insertPos, Len(content))
       ELSE dateHeader \o "\n\n" \o entry \o "\n\n" \o content

\* s.replace('./', ''): the first occurrence only
RemoveFirstDotSlash(s) ==
  LET i == IndexOf(s, "./")
  IN IF i = 0 THEN s ELSE SubSeq(s, 1, i - 1) \o SubSeq(s, i + 2, Len(s))

\* the entry block _appendToArchive builds
ArchiveEntry(bookmark, reasoning, category, slug) ==
  LET link == IF HasLinks(bookmark) /\ "expanded" \in DOMAIN bookmark.links[1]
                THEN bookmark.links[1].expanded ELSE ""
      tags == BookmarkTags(bookmark)
      folder == IF "folder" \in DOMAIN category /\ category.folder # Null
                     /\ RemoveFirstDotSlash(category.folder) # ""
                  THEN RemoveFirstDotSlash(category.folder) ELSE "knowledge/tools"
  IN "## @" \o bookmark.author \o " - " \o reasoning.title \o "\n> " \o bookmark.text \o "\n\n"
       \o "- **Tweet:** " \o bookmark.tweetUrl \o "\n"
       \o (IF link # "" THEN "- **Link:** " \o link \o "\n" ELSE "")
       \o (IF Len(tags) > 0
             THEN "- **Tags:** " \o JoinStrings([i \in 1..Len(tags) |-> "[[" \o tags[i] \o "]]"], " ") \o "\n"
             ELSE "")
       \o (IF "action" \in DOMAIN category /\ category.action = "file" /\ slug # ""
             THEN "- **Filed:** [" \o slug \o ".md](./" \o folder \o "/" \o slug \o ".md)\n"
             ELSE "")
       \o "- **What:** " \o reasoning.summary \o "\n"

\* the archive after _appendToArchive
_appendToArchive(content, bookmark, reasoning, category, slug) ==
  _insertIntoArchive(content, IF "date" \in DOMAIN bookmark /\ bookmark.date # "" THEN bookmark.date ELSE "Unknown Date",
                     ArchiveEntry(bookmark, reasoning, category, slug))

\* the characters \w and \d match
WordChars == "abcdefghijklmnopqrstuvwxyzABCDEFGHIJKLMNOPQRSTUVWXYZ0123456789_"

IsWordChar(c) == c # "" /\ Includes(WordChars, c)

IsDigit(c) == c # "" /\ Includes(Digits, c)

\* the end of the longest run of \w characters that starts at i (i - 1 when empty)
WordRunEnd(s, i) ==
  LET stops == {j \in i..Len(s) : ~IsWordChar(Chr(s, j))}
  IN IF stops = {} THEN Len(s) ELSE Min(stops) - 1

\* the end of the longest run of \d characters that starts at i (i - 1 when empty)
DigitRunEnd(s, i) ==
  LET stops == {j \in i..Len(s) : ~IsDigit(Chr(s, j))}
  IN IF stops = {} THEN Len(s) ELSE Min(stops) - 1

\* group 1 of /x\.com\/\w+\/status\/(\d+)/ matched at position i, "" when it does not match there
StatusIdAt(s, i) ==
  LET handleStart == i + 6
      handleEnd == WordRunEnd(s, handleStart)
      idStart == handleEnd + 9
      idEnd == DigitRunEnd(s, idStart)
  IN IF /\ Substring(s, i, i + 5) = "x.com/"
        /\ handleEnd >= handleStart
        /\ Substring(s, handleEnd + 1, handleEnd + 8) = "/status/"
        /\ idEnd >= idStart
       THEN SubSeq(s, idStart, idEnd)
       ELSE ""

\* the ids content.matchAll(/x\.com\/\w+\/status\/(\d+)/g) yields
_loadExistingIds(content) ==
  {StatusIdAt(content, i) : i \in {j \in 1..Len(content) : Substring(content, j, j + 5) = "x.com/"}} \ {""}

(***************************************************************************)
(* Category registries                                                     *)
(***************************************************************************)

\* DEFAULT_CATEGORIES of test/free-mode.test.js; `order` is the key order of the object
DEFAULT_CATEGORIES ==
  [order |-> <<"github", "article", "youtube", "podcast", "tweet">>,
   rules |->
     [github  |-> [match |-> <<"github.com">>, action |-> "file", folder |-> "./knowledge/tools",
                   template |-> "tool", description |-> "GitHub repositories"],
      article |-> [match |-> <<"medium.com", "substack.com">>, action |-> "file", folder |-> "./knowledge/articles",
                   template |-> "article", description |-> "Articles"],
      youtube |-> [match |-> <<"youtube.com", "youtu.be">>, action |-> "transcribe", folder |-> "./knowledge/videos",
                   template |-> "video", description |-> "Videos"],
      podcast |-> [match |-> <<"podcasts.apple.com">>, action |-> "transcribe", folder |-> "./knowledge/podcasts",
                   template |-> "podcast", description |-> "Podcasts"],
      tweet   |-> [match |-> <<>>, action |-> "capture", folder |-> Null,
                   template |-> Null, description |-> "Tweets"]]]

\* the registry restricted to some of its keys, order kept
RECURSIVE FilterOrder(_, _)
FilterOrder(order, keys) ==
  IF order = <<>> THEN <<>>
  ELSE (IF Head(order) \in keys THEN <<Head(order)>> ELSE <<>>) \o FilterOrder(Tail(order), keys)

RestrictRegistry(categories, keys) ==
  [order |-> FilterOrder(categories.order, keys),
   rules |-> [k \in (DOMAIN categories.rules) \cap keys |-> categories.rules[k]]]

\* a registry that lists the article rule first and lets it claim github.com too
ArticleFirstRegistry ==
  [order |-> <<"article", "github", "tweet">>,
   rules |->
     [article |-> [match |-> <<"medium.com", "github.com">>, action |-> "file", folder |-> "./notes",
                   template |-> "article", description |-> "Articles"],
      github  |-> [match |-> <<"github.com">>, action |-> "file", folder |-> "./code",
                   template |-> "tool", description |-> "GitHub repositories"],
      tweet   |-> [match |-> <<>>, action |-> "capture", folder |-> Null,
                   template |-> Null, description |-> "Tweets"]]]

Registries ==
  { DEFAULT_CATEGORIES,
    RestrictRegistry(DEFAULT_CATEGORIES, {"github", "article", "youtube", "podcast"}),
    RestrictRegistry(DEFAULT_CATEGORIES, {"tweet"}),
    RestrictRegistry(DEFAULT_CATEGORIES, {}),
    ArticleFirstRegistry }

(***************************************************************************)
(* FreeModePipeline.process and _processBookmark                           *)
(***************************************************************************)

Link(url) == [expanded |-> url]

\* this.categories of the pipeline
thisCategories == DEFAULT_CATEGORIES

\* the permalink of a post
TweetUrl(author, id) == "https://x.com/" \o author \o "/status/" \o id

\* the bookmarks a run is given
Repo ==
  [id |-> "11", author |-> "alice", text |-> "Check this out", date |-> "2026-01-10",
   tweetUrl |-> TweetUrl("alice", "11"), tags |-> <<"dev">>,
   links |-> <<[expanded |-> "https://github.com/acme/widget",
                content |-> [name |-> "acme/widget", description |-> "A widget"]]>>]

Thought ==
  [id |-> "12", author |-> "bob", text |-> "just thinking about stuff", date |-> "2026-01-10",
   tweetUrl |-> TweetUrl("bob", "12"), tags |-> <<>>, links |-> <<>>]

Quote ==
  [id |-> "13", author |-> "carol", text |-> "Great article, see https://x.com/dave/status/14",
   date |-> "2026-01-11", tweetUrl |-> TweetUrl("carol", "13"), tags |-> <<>>, links |-> <<>>]

Clip ==
  [id |-> "14", author |-> "dave", text |-> "My new video", date |-> "2026-01-11",
   tweetUrl |-> TweetUrl("dave", "14"), tags |-> <<>>,
   links |-> <<Link("https://youtu.be/xyz")>>]

\* a second post of the same author about the same repository
Fork ==
  [id |-> "15", author |-> "alice", text |-> "Now with docs", date |-> "2026-01-11",
   tweetUrl |-> TweetUrl("alice", "15"), tags |-> <<>>,
   links |-> <<[expanded |-> "https://github.com/acme/widget",
                content |-> [name |-> "acme/widget", description |-> "A widget"]]>>]

PipelineBookmarks == {Repo, Thought, Quote, Clip, Fork}

Ids == {b.id : b \in PipelineBookmarks}

\* the longest batch handed to process()
MaxBatch == 2

\* the number of calls of process()
MaxRuns == 2

RECURSIVE SeqsUpTo(_, _)
SeqsUpTo(S, n) ==
  IF n = 0 THEN {<<>>}
  ELSE SeqsUpTo(S, n - 1) \cup {Append(q, x) : q \in {r \in SeqsUpTo(S, n - 1) : Len(r) = n - 1}, x \in S}

Batches == SeqsUpTo(PipelineBookmarks, MaxBatch)

\* what the provider does with a request (see getReasoning)
Answer(content) ==
  [apiKey |-> TRUE, transport |-> "response", ok |-> TRUE, body |-> "json", content |-> content]

GoodAnswer ==
  Answer(Stringify(ReasoningObject(JString("Handy Notes"), JString("Worth a read"),
                                   JArray(<<JString("notes")>>), JString("Article"))))

TimedOut == [apiKey |-> TRUE, transport |-> "abort", ok |-> FALSE, body |-> "invalid", content |-> ""]

\* the provider's behaviour on the request made for a bookmark: it answers the
\* request for the quoting post and times out on the others
ProviderResponse(bookmark) == IF bookmark.id = Quote.id THEN GoodAnswer ELSE TimedOut

\* the file-system call that throws while a bookmark is handled
IoFaults == {"none", "write", "archive"}

\* category.key of the result
RuleKey(category) == IF "key" \in DOMAIN category THEN category.key ELSE Undefined

\* _processBookmark after its four calls (reasoning, category, slug and w are
\* the values _getReasoning, _matchCategory, _generateSlug and _writeBookmark
\* gave): threw, the result, and the archive and files it leaves
_processBookmark(bookmark, reasoning, category, slug, w, fault, content) ==
  LET result == [id |-> bookmark.id, title |-> reasoning.title, slug |-> slug,
                 category |-> RuleKey(category), filePath |-> w.filePath]
  IN IF w.threw
       THEN [threw |-> TRUE, result |-> NoValue, archive |-> content, files |-> w.files, archived |-> FALSE]
     ELSE IF w.filePath = Null
       THEN [threw |-> FALSE, result |-> result, archive |-> content, files |-> w.files, archived |-> FALSE]
     ELSE IF fault = "archive"
       THEN [threw |-> TRUE, result |-> NoValue, archive |-> content, files |-> w.files, archived |-> FALSE]
     ELSE [threw |-> FALSE, result |-> result,
           archive |-> _appendToArchive(content, bookmark, reasoning, category, slug),
           files |-> w.files, archived |-> TRUE]

NoCounts == [id \in Ids |-> [results |-> 0, writes |-> 0, archived |-> 0]]

\* the counts after a step on bookmark id
Counted(id, gaveResult, wrote, archivedEntry) ==
  [counts EXCEPT ![id] = [results |-> @.results + (IF gaveResult THEN 1 ELSE 0),
                          writes |-> @.writes + (IF wrote THEN 1 ELSE 0),
                          archived |-> @.archived + (IF archivedEntry THEN 1 ELSE 0)]]

\* the pipeline after construction, before any run
PipelineConstructed ==
  /\ pc = "idle"
  /\ archive = ""
  /\ files = <<>>
  /\ existingIds = {}
  /\ bookmarks = <<>>
  /\ cursor = 0
  /\ results = <<>>
  /\ run = 0
  /\ outcomes = <<>>
  /\ counts = NoCounts

Init ==
  /\ call = "process"
  /\ args = NoValue
  /\ ret = NoValue
  /\ PipelineConstructed

\* process(batch) up to the loop: results = [], existingIds = this._loadExistingIds()
Process(batch) ==
  /\ pc = "idle"
  /\ call = "process"
  /\ run < MaxRuns
  /\ pc' = "loop"
  /\ run' = run + 1
  /\ bookmarks' = batch
  /\ cursor' = 1
  /\ results' = <<>>
  /\ existingIds' = _loadExistingIds(archive)
  /\ outcomes' = <<>>
  /\ ret' = NoValue
  /\ UNCHANGED <<call, args, archive, files, counts>>

InLoop == pc = "loop" /\ cursor <= Len(bookmarks)

\* one iteration: existingIds.has(bookmark.id), continue
SkipDuplicate ==
  /\ InLoop
  /\ bookmarks[cursor].id \in existingIds
  /\ cursor' = cursor + 1
  /\ outcomes' = Append(outcomes, "skipped")
  /\ UNCHANGED <<call, args, ret, pc, archive, files, existingIds, bookmarks, results, run, counts>>

\* the index of the next iteration: the catch block swallows the error and the
\* loop goes on
NextCursorAbortOnThrow(threw) == IF threw THEN Len(bookmarks) + 1 ELSE cursor + 1

NextCursor(threw) == cursor + 1

\* one iteration: try { _processBookmark; results.push; existingIds.add }
\* catch { console.error }
ProcessBookmark(fault) ==
  /\ InLoop
  /\ bookmarks[cursor].id \notin existingIds
  /\ \E b \in {bookmarks[cursor]} :
     \E reasoning \in {_getReasoning(b, ProviderResponse(b))} :
     \E category \in {_matchCategory(b, reasoning, thisCategories)} :
     \E slug \in {_generateSlug(reasoning.title, b.author)} :
     \E w \in {_writeBookmark(b, reasoning, category, slug, files, fault = "write")} :
     \E step \in {_processBookmark(b, reasoning, category, slug, w, fault, archive)} :
       /\ IF step.threw
            THEN /\ files' = step.files
                 /\ counts' = Counted(b.id, FALSE, w.filePath # Null, FALSE)
                 /\ outcomes' = Append(outcomes, "errored")
                 /\ UNCHANGED <<archive, existingIds, results>>
            ELSE /\ results' = Append(results, step.result)
                 /\ existingIds' = existingIds \cup {b.id}
                 /\ archive' = step.archive
                 /\ files' = step.files
                 /\ counts' = Counted(b.id, TRUE, step.result.filePath # Null, step.archived)
                 /\ outcomes' = Append(outcomes, "processed")
       /\ cursor' = NextCursor(step.threw)
  /\ UNCHANGED <<call, args, ret, pc, bookmarks, run>>

\* the loop is over: return { processed, total, results }
Return ==
  /\ pc = "loop"
  /\ cursor > Len(bookmarks)
  /\ ret' = [processed |-> Len(results), total |-> Len(bookmarks), results |-> results]
  /\ pc' = "idle"
  /\ UNCHANGED <<call, args, archive, files, existingIds, bookmarks, cursor, results, run, outcomes, counts>>

Next ==
  \/ \E batch \in Batches : Process(batch)
  \/ SkipDuplicate
  \/ \E fault \in IoFaults : ProcessBookmark(fault)
  \/ Return

Spec == Init /\ [][Next]_vars

(***************************************************************************)
(* Inputs of _matchCategory                                                *)
(***************************************************************************)

\* bookmarks handed to the resolver: `{}` of the tests, and bookmarks with text and links
MatchBookmarks ==
  { [id |-> "100"],
    [id |-> "101", text |-> "", links |-> <<>>],
    [id |-> "102", text |-> "just thinking about stuff", links |-> <<>>],
    [id |-> "103", text |-> "look at this", links |-> <<Link("https://github.com/acme/widget")>>],
    [id |-> "104", text |-> "New Video out now", links |-> <<Link("https://github.com/acme/widget")>>],
    [id |-> "105", text |-> "look at this", links |-> <<Link("https://example.org/a"), Link("https://youtu.be/xyz"), Link("https://github.com/acme/widget")>>],
    [id |-> "106", text |-> "hmm", links |-> <<Link("https://example.org/a")>>] }

Reasoning(category, title, summary) ==
  [kind |-> "record", category |-> category, title |-> title, summary |-> summary, tags |-> <<>>]

\* category labels: empty, padded, unmapped, mapped to each key, inherited names
MatchLabels ==
  { "", "  GitHub  ", "Unknown", "GitHub", "Article", "Video", "Podcast", "General",
    "repo", "tutorial", "course", "resource", "automation", "mcp", "techstack", "deal",
    "student", "comprehensive", "Tool", "news", "constructor",
    "Millionaire", "3D Generation", "Chat History", "Vision", "Personal AI OS", "Y Combinator" }

\* <<title, summary>> pairs
MatchTitles ==
  { <<"Test", "Test">>,
    <<"Random thoughts", "Just thinking">>,
    <<"GitHub Bot Exploits", "Test summary">>,
    <<"Comprehensive Guide", "Test summary">>,
    <<"Rise of Automation Millionaires", "Test summary">>,
    <<"3D Scene Generation", "Test summary">>,
    <<"AI Chat History", "Test summary">>,
    <<"Personal AI Vision", "Test summary">>,
    <<"Personal AI Operating System", "Test summary">>,
    <<"Y Combinator Student Deals for AI Credits", "Test summary">>,
    <<"Big news today", "Quiet day">> }

MatchReasonings ==
  { [kind |-> "null"], [kind |-> "undefined"], [kind |-> "record", title |-> "Test", summary |-> "Test"] }
    \cup { Reasoning(c, t[1], t[2]) : c \in MatchLabels, t \in MatchTitles }

MatchInputs ==
  [bookmark : MatchBookmarks, reasoning : MatchReasonings, categories : Registries]

InitMatch ==
  /\ PipelineConstructed
  /\ call = "pending"
  /\ args \in MatchInputs
  /\ ret = NoValue

\* one call of pipeline._matchCategory(bookmark, reasoning)
MatchCategoryCall ==
  /\ call = "pending"
  /\ "categories" \in DOMAIN args
  /\ ret' = _matchCategory(args.bookmark, args.reasoning, args.categories)
  /\ call' = "returned"
  /\ UNCHANGED <<args, pipelineVars>>

NextMatch == MatchCategoryCall

SpecMatch == InitMatch /\ [][NextMatch]_vars

(***************************************************************************)
(* Inputs of _parseOutput                                                  *)
(***************************************************************************)

\* the ways a provider wraps its JSON answer
Wrappers == {"bare", "padded", "fenced-json", "fenced", "prose"}

Wrap(w, text) ==
  CASE w = "bare" -> text
    [] w = "padded" -> " \n" \o text \o "\n\t "
    [] w = "fenced-json" -> Fence \o "json\n" \o text \o "\n" \o Fence
    [] w = "fenced" -> "Sure:\n" \o Fence \o "\n" \o text \o "\n" \o Fence \o "\n"
    [] w = "prose" -> "Here is the metadata: " \o text \o " Hope this helps."

\* answers that are no JSON at all
GarbageOutputs == {"", "I cannot help with that.", "{title: Test}", "{\"title\": \"Test\""}

ParseInputs ==
  { [rawOutput |-> Wrap(w, Stringify(v)), doc |-> v] : w \in Wrappers, v \in JsonDocuments }
    \cup { [rawOutput |-> g, doc |-> JUndefined] : g \in GarbageOutputs }

InitParse ==
  /\ PipelineConstructed
  /\ call = "pending"
  /\ args \in ParseInputs
  /\ ret = NoValue

\* one call of client._parseOutput(rawOutput)
ParseOutputCall ==
  /\ call = "pending"
  /\ "rawOutput" \in DOMAIN args
  /\ ret' = _parseOutput(args.rawOutput)
  /\ call' = "returned"
  /\ UNCHANGED <<args, pipelineVars>>

NextParse == ParseOutputCall

SpecParse == InitParse /\ [][NextParse]_vars

(***************************************************************************)
(* Properties of _matchCategory, checked under SpecMatch                   *)
(***************************************************************************)

Returned == call = "returned" /\ "categories" \in DOMAIN args

\* the rules a registry holds
RegistryRules(categories) == {categories.rules[k] : k \in DOMAIN categories.rules}

Actions == {"file", "transcribe", "capture"}

\* C1: _matchCategory is total: for every bookmark (also one without text and
\* links), every reasoning value (record, record with empty or unmapped
\* category, null, undefined) and every registry it returns one rule, a rule of
\* the registry or the synthesized one, whose action is non-empty; when neither
\* the link scan nor the matched key names a rule of the registry, the rule
\* returned is the synthesized {key tweet, action capture, folder null,
\* template null}.
MatchCategoryTotal ==
  Returned =>
    /\ ret \in RegistryRules(args.categories) \cup {SynthesizedRule}
    /\ "action" \in DOMAIN ret /\ ret.action \in Actions
    /\ ( /\ UrlEscape(args.bookmark, MatchedKey(args.bookmark, args.reasoning), args.categories) = Null
         /\ MatchedKey(args.bookmark, args.reasoning) \notin DOMAIN args.categories.rules
         => /\ ret = SynthesizedRule
            /\ ret.key = "tweet" /\ ret.action = "capture"
            /\ ret.folder = Null /\ ret.template = Null )

\* C1 witness: the bookmark `{}` with a null reasoning and an empty registry
\* has been resolved to the synthesized rule
MatchCategoryTotalWitness ==
  /\ Returned
  /\ args.bookmark = [id |-> "100"]
  /\ args.reasoning.kind = "null"
  /\ args.categories.order = <<>>
  /\ ret = SynthesizedRule

\* the documented hard cases: <<AI category, title>>, summary 'Test summary'
HardCases ==
  { <<"Millionaire", "Rise of Automation Millionaires">>,
    <<"3D Generation", "3D Scene Generation">>,
    <<"Chat History", "AI Chat History">>,
    <<"Vision", "Personal AI Vision">>,
    <<"Personal AI OS", "Personal AI Operating System">>,
    <<"Y Combinator", "Y Combinator Student Deals for AI Credits">> }

IsHardCase ==
  /\ Returned
  /\ args.categories = DEFAULT_CATEGORIES
  /\ args.bookmark = [id |-> "100"]
  /\ args.reasoning.kind = "record"
  /\ "category" \in DOMAIN args.reasoning
  /\ <<args.reasoning.category, args.reasoning.title>> \in HardCases
  /\ args.reasoning.summary = "Test summary"

\* C4: under the default registry every documented hard case resolves to the
\* article rule (registry key 'article').
HardCasesResolveToArticle ==
  IsHardCase => ret = DEFAULT_CATEGORIES.rules.article

\* some link of the bookmark has a URL containing 'github.com'
HasGithubLink(bookmark) ==
  \E i \in 1..Len(BookmarkLinks(bookmark)) : Includes(BookmarkLinks(bookmark)[i].expanded, "github.com")

\* the AI category is empty or a label the synonym table does not hold
EmptyOrUnmappedLabel(reasoning) ==
  /\ reasoning.kind = "record" /\ "category" \in DOMAIN reasoning
  /\ (reasoning.category = "" \/ AiCategory(reasoning) \notin categoryMapKeys)

\* C5: a bookmark with a github.com link and an empty or unmapped AI category
\* resolves to the registry's github rule, whatever the title, summary and
\* bookmark text are.
GithubLinkResolvesToGithub ==
  ( /\ Returned
    /\ "github" \in DOMAIN args.categories.rules
    /\ HasGithubLink(args.bookmark)
    /\ EmptyOrUnmappedLabel(args.reasoning) )
  => ret = args.categories.rules.github

\* no keyword group, no whitespace-separated synonym key and no broad topic in the combined text
NoRecognizedKeyword(bookmark, reasoning) ==
  LET combinedText == CombinedText(bookmark, reasoning)
      words == SplitWhitespace(combinedText)
  IN /\ ~IncludesAny(combinedText, GithubIndicators \o VideoIndicators \o PodcastIndicators
                                     \o ArticleIndicators \o ToolIndicators)
     /\ \A i \in 1..Len(words) : words[i] \notin categoryMapKeys
     /\ ~IncludesAny(combinedText, BroadTopics)

\* C6: when the AI category label is not in the synonym table and the combined
\* text holds no recognized keyword, the resolver returns the terminal default:
\* the synthesized rule, action 'capture' and folder null.
UnrecognizedResolvesToDefault ==
  ( /\ Returned
    /\ AiCategory(args.reasoning) \notin categoryMapKeys
    /\ NoRecognizedKeyword(args.bookmark, args.reasoning) )
  => /\ ret = SynthesizedRule
     /\ ret.action = "capture"
     /\ ret.folder = Null

\* C6 witness: category 'Unknown', title 'Random thoughts', summary 'Just
\* thinking' on a bookmark carrying a github.com link, under the default
\* registry, has been resolved to the terminal default
UnrecognizedResolvesToDefaultWitness ==
  /\ Returned
  /\ args.categories = DEFAULT_CATEGORIES
  /\ args.bookmark.id = "103"
  /\ args.reasoning = Reasoning("Unknown", "Random thoughts", "Just thinking")
  /\ ret = SynthesizedRule

SpecificKeys == {"github", "article", "youtube", "podcast"}

\* C7: direct label lookup is decisive: when the lower-cased, trimmed AI
\* category is a synonym-table key mapped to github, article, youtube or
\* podcast, the rule returned is the registry's rule of that key, whatever the
\* title, summary, text and links; 'repo', 'mcp' and '  GitHub  ' give the
\* github rule, 'tutorial', 'comprehensive', 'deal', 'student' the article rule
\* (both action 'file'), 'Video' and 'Podcast' rules with action 'transcribe'
\* under the default registry.
LabelLookupDecisive ==
  Returned /\ args.reasoning.kind = "record" /\ "category" \in DOMAIN args.reasoning =>
    LET label == args.reasoning.category
        rules == args.categories.rules
    IN /\ ( /\ AiCategory(args.reasoning) \in categoryMapKeys
            /\ categoryMap(AiCategory(args.reasoning)) \in SpecificKeys \cap DOMAIN rules )
          => ret = rules[categoryMap(AiCategory(args.reasoning))]
       /\ label \in {"repo", "mcp", "  GitHub  "} /\ "github" \in DOMAIN rules
          => ret = rules.github
       /\ label \in {"tutorial", "comprehensive", "deal", "student"} /\ "article" \in DOMAIN rules
          => ret = rules.article
       /\ args.categories = DEFAULT_CATEGORIES
          => /\ label \in {"repo", "mcp", "  GitHub  ", "tutorial", "comprehensive", "deal", "student"}
                => ret.action = "file"
             /\ label \in {"Video", "Podcast"} => ret.action = "transcribe"

\* C7 witness: the label '  GitHub  ' on a bookmark whose text says video and
\* whose title would scan as article has been resolved to the github rule
LabelLookupDecisiveWitness ==
  /\ Returned
  /\ args.categories = DEFAULT_CATEGORIES
  /\ args.bookmark.id = "104"
  /\ args.reasoning = Reasoning("  GitHub  ", "Comprehensive Guide", "Test summary")
  /\ ret = DEFAULT_CATEGORIES.rules.github

(***************************************************************************)
(* Properties of _parseOutput, checked under SpecParse                     *)
(***************************************************************************)

Parsed == call = "returned" /\ "rawOutput" \in DOMAIN args

FieldOrder == <<"title", "summary", "category", "tags">>

\* the field is left out or has the wrong JSON type
MissingOrMistyped(doc, f) ==
  Member(doc, f).t # (IF f = "tags" THEN "array" ELSE "string")

\* the field fails its check: left out, of the wrong type, or the empty string
FailsCheck(doc, f) ==
  MissingOrMistyped(doc, f) \/ (f # "tags" /\ Member(doc, f).s = "")

FirstFailing(doc) ==
  FieldOrder[Min({i \in 1..Len(FieldOrder) : FailsCheck(doc, FieldOrder[i])})]

FieldError(f) ==
  IF f = "tags" THEN "Invalid \"tags\" field: must be array"
  ELSE "Missing or invalid \"" \o f \o "\" field"

\* C9: for every JSON object that lacks, or has a wrongly typed, title,
\* summary, category or tags, _parseOutput fails with the error naming the
\* first failing field in the order title, summary, category, tags, and
\* returns no record.
FirstInvalidFieldNamed ==
  ( /\ Parsed
    /\ args.doc.t = "object"
    /\ \E i \in 1..Len(FieldOrder) : MissingOrMistyped(args.doc, FieldOrder[i]) )
  => /\ ~ret.ok
     /\ "value" \notin DOMAIN ret
     /\ ret.error = FieldError(FirstFailing(args.doc))

\* C9 witness: an object without category whose tags is a string, wrapped in a
\* fence, has been refused on 'category'
FirstInvalidFieldNamedWitness ==
  /\ Parsed
  /\ args.doc = ReasoningObject(JString("Test"), JString("Test summary"), JString("test"), Absent)
  /\ args.rawOutput = Wrap("fenced-json", Stringify(args.doc))
  /\ ret = [ok |-> FALSE, error |-> "Missing or invalid \"category\" field"]

\* the strings of a tags array, each trimmed, the empty ones dropped, order kept
RECURSIVE TrimmedNonEmpty(_)
TrimmedNonEmpty(items) ==
  IF items = <<>> THEN <<>>
  ELSE (IF Trim(Head(items).s) = "" THEN <<>> ELSE <<Trim(Head(items).s)>>) \o TrimmedNonEmpty(Tail(items))

IsTrimmed(s) == s # "" /\ ~IsWs(Chr(s, 1)) /\ ~IsWs(Chr(s, Len(s)))

StringFields == <<"title", "summary", "category">>

\* the string field is present, a string, and empty once trimmed
BlankAfterTrim(doc, f) == Member(doc, f).t = "string" /\ Trim(Member(doc, f).s) = ""

\* C10: every record _parseOutput returns has title, summary and category
\* trimmed and non-empty and tags equal to the input tags trimmed, empty ones
\* dropped, order kept; an input whose title, summary or category is empty
\* after trimming is refused with the error of that field.
ReturnedRecordNormalized ==
  Parsed /\ args.doc.t = "object" =>
    /\ ret.ok =>
         /\ \A i \in 1..Len(StringFields) : IsTrimmed(ret.value[StringFields[i]])
         /\ ret.value.tags = TrimmedNonEmpty(Member(args.doc, "tags").items)
    /\ (\E i \in 1..Len(StringFields) : BlankAfterTrim(args.doc, StringFields[i]))
         => ~ret.ok /\ \E i \in 1..Len(StringFields) :
                          /\ BlankAfterTrim(args.doc, StringFields[i])
                          /\ ret.error = FieldError(StringFields[i])

(***************************************************************************)
(* _getReasoning on its own: every bookmark with every provider behaviour  *)
(***************************************************************************)

RECURSIVE Rep(_, _)
\* c.repeat(n)
Rep(c, n) ==
  IF n <= 0 THEN ""
  ELSE IF n = 1 THEN c
  ELSE Rep(c, n \div 2) \o Rep(c, n - (n \div 2))

\* a post whose text is n characters long
LongPost(n) ==
  [id |-> "20", author |-> "erin", text |-> Rep("z", n), date |-> "2026-01-12",
   tweetUrl |-> TweetUrl("erin", "20"), tags |-> <<>>, links |-> <<>>]

\* the length of the prompt around the text of a post by erin
PromptOverhead == Len(_buildPrompt(LongPost(0)))

\* posts whose prompt is one character short of the limit, at the limit and
\* one character over it
LongPosts == {LongPost(ContextLimit - PromptOverhead + d) : d \in {-1, 0, 1}}

ReasonBookmarks == PipelineBookmarks \cup LongPosts

\* the answers a provider gives when it answers
ReasonContents ==
  {Stringify(v) : v \in ProviderAnswers}
    \cup {Wrap("fenced-json", Stringify(v)) : v \in ProviderAnswers}
    \cup {Stringify(ReasoningObject(Absent, JString("Test summary"), JArray(<<>>), JString("Test"))),
          Stringify(ReasoningObject(JString("Test"), JString("Test summary"), JString("a, b"), JString("Test"))),
          Stringify(JNull), "I cannot help with that."}

\* what the provider does with a request: no key configured, the timer aborts
\* the request, the transport fails, an error status, a body that is no JSON,
\* a body without choices, an answer
ReasonResponses ==
  {[apiKey |-> FALSE, transport |-> "response", ok |-> TRUE, body |-> "json", content |-> ""],
   TimedOut,
   [apiKey |-> TRUE, transport |-> "reject", ok |-> FALSE, body |-> "invalid", content |-> ""],
   [apiKey |-> TRUE, transport |-> "response", ok |-> FALSE, body |-> "json", content |-> "Too Many Requests"],
   [apiKey |-> TRUE, transport |-> "response", ok |-> FALSE, body |-> "invalid", content |-> ""],
   [apiKey |-> TRUE, transport |-> "response", ok |-> TRUE, body |-> "invalid", content |-> ""],
   [apiKey |-> TRUE, transport |-> "response", ok |-> TRUE, body |-> "shape", content |-> ""]}
    \cup {Answer(c) : c \in ReasonContents}

ReasonInputs == {[bookmark |-> b, response |-> r] : b \in ReasonBookmarks, r \in ReasonResponses}

InitReason ==
  /\ PipelineConstructed
  /\ call = "pending"
  /\ args \in ReasonInputs
  /\ ret = NoValue

\* one call of pipeline._getReasoning(bookmark)
GetReasoningCall ==
  /\ call = "pending"
  /\ "response" \in DOMAIN args
  /\ ret' = ReasoningTrace(args.bookmark, args.response)
  /\ call' = "returned"
  /\ UNCHANGED <<args, pipelineVars>>

NextReason == GetReasoningCall

SpecReason == InitReason /\ [][NextReason]_vars

Reasoned == call = "returned" /\ "response" \in DOMAIN args

\* the request of the reasoning port fails: no key, timeout, transport error,
\* error status, undecodable or misshapen body, parse or validation error
PortFails(response) ==
  \/ ~response.apiKey
  \/ response.transport # "response"
  \/ ~response.ok
  \/ response.body # "json"
  \/ ~_parseOutput(response.content).ok

ReasoningFields == {"title", "summary", "tags", "category"}

\* C8: _getReasoning never fails for a well-formed bookmark: it returns a record
\* with title, summary, tags and category. When the prompt is longer than 3000
\* characters the port is not called and the default metadata is returned; when
\* the port is called and fails, in whatever way, the default metadata of the
\* bookmark is returned; otherwise the record the port validated is returned.
ReasoningNeverFails ==
  Reasoned =>
    /\ ReasoningFields \subseteq DOMAIN ret.reasoning
    /\ ret.called = (Len(_buildPrompt(args.bookmark)) <= ContextLimit)
    /\ ~ret.called => ret.reasoning = _generateDefaultMetadata(args.bookmark)
    /\ ret.called /\ PortFails(args.response) =>
         ret.failed /\ ret.reasoning = _generateDefaultMetadata(args.bookmark)
    /\ ret.called /\ ~PortFails(args.response) =>
         ~ret.failed /\ ret.reasoning = _parseOutput(args.response.content).value

\* C8 witness: a prompt of exactly 3000 characters was sent and the fenced
\* answer of the provider was returned
ReasoningNeverFailsWitness ==
  /\ Reasoned
  /\ Len(_buildPrompt(args.bookmark)) = ContextLimit
  /\ ret.called /\ ~ret.failed
  /\ ret.reasoning.title = "Handy Notes"
  /\ Len(args.response.content) > Len(Stringify(ReasoningObject(JString("Handy Notes"), JString("Worth a read"),
                                                JArray(<<JString("notes")>>), JString("Article"))))

(***************************************************************************)
(* Claims about process()                                                  *)
(***************************************************************************)

\* C2: duplicate detection across runs: a bookmark that process() has processed
\* in one run (it gave a result) is skipped in every later run, so over all
\* runs no bookmark id is processed a second time.
ProcessedOnceAcrossRuns == \A id \in Ids : counts[id].results <= 1

ProcessedIndexes == {i \in 1..Len(outcomes) : outcomes[i] = "processed"}

\* the index in the batch of the k-th processed bookmark
NthProcessed(k) == CHOOSE i \in ProcessedIndexes : Cardinality({j \in ProcessedIndexes : j <= i}) = k

ProcessReturned == pc = "idle" /\ ret # NoValue

\* C3: a failure while one bookmark is handled never aborts process(): every
\* iteration, failed or not, moves on to the next bookmark in input order, and
\* on return total is the number of input bookmarks, processed the number of
\* results, and every input bookmark was exactly one of skipped, processed
\* (one result, in input order) or errored (no result).
FailureNeverAborts ==
  /\ pc = "loop" => cursor <= Len(bookmarks) + 1 /\ Len(outcomes) = cursor - 1
  /\ ProcessReturned =>
       /\ ret.total = Len(bookmarks)
       /\ ret.processed = Len(ret.results)
       /\ Len(outcomes) = Len(bookmarks)
       /\ \A i \in 1..Len(outcomes) : outcomes[i] \in {"skipped", "processed", "errored"}
       /\ Len(ret.results) = Cardinality(ProcessedIndexes)
       /\ \A k \in 1..Len(ret.results) : ret.results[k].id = bookmarks[NthProcessed(k)].id

\* C3 witness: a run has returned in which a bookmark errored and a later
\* bookmark of the batch was processed
FailureNeverAbortsWitness ==
  /\ ProcessReturned
  /\ \E i, j \in 1..Len(outcomes) : i < j /\ outcomes[i] = "errored" /\ outcomes[j] = "processed"
  /\ ret.total = 2 /\ ret.processed = 1

(***************************************************************************)
(* _insertIntoArchive on its own: a sequence of insertions into a document *)
(***************************************************************************)

\* the number of insertions made into one document
MaxInserts == 3

\* the bookmarks whose entries are inserted: two of the same date, one of
\* another date whose text mentions the heading of the first, one without date
ArchiveBookmarks ==
  { [id |-> "31", author |-> "alice", text |-> "Check this out", date |-> "2026-01-10",
     tweetUrl |-> TweetUrl("alice", "31"), tags |-> <<"dev">>, links |-> <<Link("https://github.com/acme/widget")>>],
    [id |-> "32", author |-> "bob", text |-> "second post", date |-> "2026-01-10",
     tweetUrl |-> TweetUrl("bob", "32"), tags |-> <<>>, links |-> <<>>],
    [id |-> "33", author |-> "carol", text |-> "notes from # 2026-01-10 standup", date |-> "2026-01-11",
     tweetUrl |-> TweetUrl("carol", "33"), tags |-> <<>>, links |-> <<>>],
    [id |-> "34", author |-> "dave", text |-> "undated", tweetUrl |-> TweetUrl("dave", "34"),
     tags |-> <<>>, links |-> <<>>] }

\* bookmark.date || 'Unknown Date'
EntryDate(bookmark) ==
  IF "date" \in DOMAIN bookmark /\ bookmark.date # "" THEN bookmark.date ELSE "Unknown Date"

\* the (date, entry) pairs _appendToArchive hands to _insertIntoArchive
ArchiveInsertions ==
  { [date |-> EntryDate(b),
     entry |-> ArchiveEntry(b, _generateDefaultMetadata(b), DEFAULT_CATEGORIES.rules.github, "slug-" \o b.id)]
    : b \in ArchiveBookmarks }

\* the archive file before the first insertion: missing, written by an earlier
\* run, and edited by hand so that a heading is its last line without newline
ArchiveDocuments ==
  { "",
    "# 2026-01-09\n\n## @zed - Old\n> old post\n\n- **Tweet:** https://x.com/zed/status/30\n- **What:** old post\n\n\n",
    "# 2026-01-11\n\n## @zed - Old\n> old post\n\n- **Tweet:** https://x.com/zed/status/30\n- **What:** old post\n\n# 2026-01-10" }

InitArchive ==
  /\ pc = "idle"
  /\ archive \in ArchiveDocuments
  /\ files = <<>>
  /\ existingIds = {}
  /\ bookmarks = <<>>
  /\ cursor = 0
  /\ results = <<>>
  /\ run = 0
  /\ outcomes = <<>>
  /\ counts = NoCounts
  /\ call = "pending"
  /\ args = NoValue
  /\ ret = NoValue

\* one call of _insertIntoArchive(date, entry): read the file, insert, write it
\* back; ret keeps the document read
InsertIntoArchiveCall(insertion) ==
  /\ run < MaxInserts
  /\ run' = run + 1
  /\ args' = insertion
  /\ ret' = archive
  /\ archive' = _insertIntoArchive(archive, insertion.date, insertion.entry)
  /\ call' = "inserted"
  /\ UNCHANGED <<pc, files, existingIds, bookmarks, cursor, results, outcomes, counts>>

NextArchive == \E insertion \in ArchiveInsertions : InsertIntoArchiveCall(insertion)

SpecArchive == InitArchive /\ [][NextArchive]_vars

Inserted == call = "inserted"

\* the character before position i is a line start, the one after j a line end
LineStart(s, i) == i = 1 \/ Chr(s, i - 1) = "\n"

LineEnd(s, j) == j = Len(s) \/ Chr(s, j + 1) = "\n"

\* the positions of the lines of s that are the heading of date
HeadingLines(s, date) ==
  {i \in 1..Len(s) : /\ LineStart(s, i)
                     /\ Substring(s, i, i + Len(date) + 1) = "# " \o date
                     /\ LineEnd(s, i + Len(date) + 1)}

\* the blocks an insertion may add: the entry, or a new section
InsertedBlocks(date, entry) == {entry \o "\n", "# " \o date \o "\n\n" \o entry \o "\n\n"}

\* new is old with block inserted at one place
InsertedAt(old, new, block) ==
  \E pos \in 0..Len(old) : new = SubSeq(old, 1, pos) \o block \o SubSeq(old, pos + 1, Len(old))

\* C11: every archive insertion preserves the structure of the document: the
\* new document is the old one with one block inserted (so all prior content
\* is present, unmodified and in order, and deleting the block gives the old
\* document back), and when the heading of the date already exists the number
\* of heading lines of that date is unchanged.
ArchivePreserved ==
  Inserted =>
    /\ \E block \in InsertedBlocks(args.date, args.entry) : InsertedAt(ret, archive, block)
    /\ HeadingLines(ret, args.date) # {} =>
         Cardinality(HeadingLines(archive, args.date)) = Cardinality(HeadingLines(ret, args.date))

\* C11 witness: a third insertion went into a section whose heading existed
\* and already had entries
ArchivePreservedWitness ==
  /\ Inserted
  /\ run = 3
  /\ HeadingLines(ret, args.date) # {}
  /\ Cardinality(HeadingLines(archive, "2026-01-10")) = 1
  /\ Cardinality(HeadingLines(archive, "2026-01-11")) = 1
  /\ Len(archive) > Len(ret)

(***************************************************************************)
(* _generateSlug on its own: two calls side by side                        *)
(***************************************************************************)

\* titles: plain, the same in another case, padded and punctuated, empty,
\* nothing but stripped characters, longer than 60 characters with and
\* without a blank at the cut
SlugTitles ==
  { "Handy Notes", "handy notes", "  Hello,   World!  ", "", "!!! ???",
    "C++ & Rust: a-b_c 100%",
    "The quick brown fox jumps over the lazy dog and keeps running on and on",
    "Aaaaaaaaaaaaaaaaaaaaaaaaaaaaaaaaaaaaaaaaaaaaaaaaaaaaaaaaaaa Bbbbbbbbbb" }

SlugAuthors == { "alice", "bob", "alice_2" }

SlugCalls == [title : SlugTitles, author : SlugAuthors]

InitSlug ==
  /\ PipelineConstructed
  /\ call = "pending"
  /\ args \in [first : SlugCalls, second : SlugCalls]
  /\ ret = <<>>

\* one call of _generateSlug(title, author): the first pair, then the second
GenerateSlugCall ==
  /\ call \in {"pending", "once"}
  /\ "first" \in DOMAIN args
  /\ LET a == IF call = "pending" THEN args.first ELSE args.second
     IN ret' = Append(ret, _generateSlug(a.title, a.author))
  /\ call' = IF call = "pending" THEN "once" ELSE "twice"
  /\ UNCHANGED <<args, pipelineVars>>

NextSlug == GenerateSlugCall

SpecSlug == InitSlug /\ [][NextSlug]_vars

Slugged == call = "twice" /\ "first" \in DOMAIN args

SlugAlphabet == "abcdefghijklmnopqrstuvwxyz0123456789-"

\* every character of s is one of alphabet
OnlyChars(s, alphabet) == \A i \in 1..Len(s) : Includes(alphabet, Chr(s, i))

\* slug is a prefix of at most 60 characters of [a-z0-9-], a hyphen and 8
\* hexadecimal digits
WellFormedSlug(slug) ==
  LET n == Len(slug)
  IN /\ n >= 9 /\ n <= 69
     /\ Chr(slug, n - 8) = "-"
     /\ OnlyChars(SubSeq(slug, 1, n - 9), SlugAlphabet)
     /\ OnlyChars(SubSeq(slug, n - 7, n), HexDigits)

\* C12: _generateSlug is a deterministic function of (title, author): equal
\* pairs give equal slugs, the same title with different authors gives
\* different slugs (the 8-character digest being free of collisions), and a
\* slug is the sanitized title cut to at most 60 characters of [a-z0-9-],
\* followed by '-' and the 8-character digest of '{title}-{author}'.
SlugDeterministic ==
  Slugged =>
    /\ args.first = args.second => ret[1] = ret[2]
    /\ (args.first.title = args.second.title /\ args.first.author # args.second.author) => ret[1] # ret[2]
    /\ \A k \in 1..2 :
         /\ WellFormedSlug(ret[k])
         /\ LET a == IF k = 1 THEN args.first ELSE args.second
                n == Len(ret[k])
            IN /\ SubSeq(ret[k], n - 7, n) = Md5Hex8(a.title \o "-" \o a.author)
               /\ SubSeq(ret[k], 1, n - 9)
                    = SliceTo(HyphenateWhitespace(Trim(KeepSlugChars(ToLowerCase(a.title)))), 60)

\* C12 witness: the title longer than 60 characters was given twice with
\* different authors: the two slugs share their 60 characters and differ
SlugDeterministicWitness ==
  /\ Slugged
  /\ args.first.title = args.second.title
  /\ args.first.author = "alice" /\ args.second.author = "alice_2"
  /\ Len(ret[1]) = 69
  /\ SubSeq(ret[1], 1, 60) = SubSeq(ret[2], 1, 60)
  /\ ret[1] # ret[2]

(***************************************************************************)
(* _writeBookmark as _processBookmark calls it, on rules of every action   *)
(***************************************************************************)

\* the number of bookmarks written one after the other
MaxWrites == 2

\* a rule without an action (its folder is set all the same)
ActionlessRule ==
  [key |-> "misc", match |-> <<>>, folder |-> "./knowledge/misc", template |-> "note",
   description |-> "No action"]

\* the rules _matchCategory can hand to the writer: the five rules of the
\* registry, the synthesized rule, a file rule of another registry and a rule
\* whose action is missing
WriteRules ==
  {DEFAULT_CATEGORIES.rules[k] : k \in DOMAIN DEFAULT_CATEGORIES.rules}
    \cup {SynthesizedRule, ArticleFirstRegistry.rules.article, ActionlessRule}

WriteInputs ==
  {[bookmark |-> b, reasoning |-> _generateDefaultMetadata(b), category |-> rule,
    slug |-> _generateSlug(_generateDefaultMetadata(b).title, b.author)] :
     b \in {Repo, Thought}, rule \in WriteRules}

InitWrite ==
  /\ PipelineConstructed
  /\ call = "write"
  /\ args = NoValue
  /\ ret = NoValue

\* the tail of _processBookmark on one input: _writeBookmark, the archive
\* append, the result
WriteBookmarkCall(input) ==
  /\ call \in {"write", "written"}
  /\ run < MaxWrites
  /\ \E w \in {_writeBookmark(input.bookmark, input.reasoning, input.category, input.slug, files, FALSE)} :
     \E step \in {_processBookmark(input.bookmark, input.reasoning, input.category, input.slug, w, "none", archive)} :
       /\ ~step.threw
       /\ files' = step.files
       /\ archive' = step.archive
       /\ ret' = step.result
  /\ args' = input
  /\ call' = "written"
  /\ run' = run + 1
  /\ UNCHANGED <<pc, existingIds, bookmarks, cursor, results, outcomes, counts>>

NextWrite == \E input \in WriteInputs : WriteBookmarkCall(input)

SpecWrite == InitWrite /\ [][NextWrite]_vars

Written == call = "written" /\ "category" \in DOMAIN args

\* rule.action as the claim reads it: Undefined when the rule has none
RuleAction(rule) == IF "action" \in DOMAIN rule THEN rule.action ELSE Undefined

\* C13: the writer writes if and only if the rule's action is 'file': for
\* 'transcribe', 'capture' or a missing action the files are left as they
\* were and the result's filePath is null; for 'file' exactly one document,
\* {folder}/{slug}.md with the rule's folder, is written, every other file
\* is left as it was, and the result's filePath is that path.
WriterWritesIffFile ==
  [][ call' = "written" =>
        LET rule == args'.category
            path == StripDotSlash(rule.folder \o "/" \o args'.slug \o ".md")
        IN IF RuleAction(rule) = "file"
             THEN /\ ret'.filePath = path
                  /\ DOMAIN files' = DOMAIN files \cup {path}
                  /\ \A q \in DOMAIN files \ {path} : files'[q] = files[q]
                  /\ files'[path]
                       = _generateFileContent(args'.bookmark, args'.reasoning, rule) \o "\n"
             ELSE /\ RuleAction(rule) \in {"transcribe", "capture", Undefined}
                  /\ files' = files
                  /\ ret'.filePath = Null ]_vars

\* C13 witness: a bookmark went through the transcribe rule and then through
\* the file rule of the other registry: one document, under that rule's folder
WriterWritesIffFileWitness ==
  /\ Written
  /\ run = 2
  /\ args.category = ArticleFirstRegistry.rules.article
  /\ DOMAIN files = {ret.filePath}
  /\ Substring(ret.filePath, 1, 6) = "notes/"

(***************************************************************************)
(* The archive as the log of a run                                         *)
(***************************************************************************)

\* the archive holds an entry block of the bookmark with this id
ArchiveHasEntry(id) ==
  \E b \in PipelineBookmarks : b.id = id /\ Includes(archive, "- **Tweet:** " \o b.tweetUrl \o "\n")

\* C14: every bookmark for which the run has a ProcessingResult, whatever the
\* action of its rule, has an entry block in the archive.
ProcessedBookmarksArchived ==
  \A i \in 1..Len(results) : ArchiveHasEntry(results[i].id)


\* C15: within one run (here the first) each id yields at most one result, at
\* most one file write and at most one archive entry, whatever the batch.
OncePerIdWithinRun ==
  run = 1 =>
    \A id \in Ids : /\ counts[id].results <= 1
                    /\ counts[id].writes <= 1
                    /\ counts[id].archived <= 1


\* the end of the heading line that starts at i: its newline when it has one
HeadingLineEnd(s, i, date) ==
  LET last == i + Len(date) + 1
  IN IF last < Len(s) THEN last + 1 ELSE last

\* C16: when the document read holds the heading line of the date, the entry
\* block is inserted immediately after that line (also when the line is the
\* last one and has no newline), so the heading precedes its entries;
\* otherwise a new heading and the entry are prepended and the prior content
\* follows unchanged.
InsertionPoint ==
  Inserted =>
    LET headings == HeadingLines(ret, args.date)
    IN IF headings # {}
         THEN LET e == HeadingLineEnd(ret, Min(headings), args.date)
              IN \E nl \in {"", "\n"} :
                   archive = SubSeq(ret, 1, e) \o nl \o args.entry \o "\n" \o SubSeq(ret, e + 1, Len(ret))
         ELSE archive = "# " \o args.date \o "\n\n" \o args.entry \o "\n\n" \o ret

(***************************************************************************)
(* OpenRouterClient.getReasoning as a process: the request, the abort      *)
(* timer, the response and its body, under _getReasoning of the pipeline   *)
(***************************************************************************)

\* the number of reasoning calls made one after the other
MaxPortCalls == 2

\* the step of the clock and the time after which it is not followed further
Quantum == ReasoningTimeout \div 4

MaxElapsed == ReasoningTimeout + 2 * Quantum

\* the times, after the request and after the response, at which the port
\* delivers the response and its body
PortDelays == {0, 2 * Quantum, ReasoningTimeout + Quantum}

\* what the port does with a request: where it stops responding (nowhere,
\* before the response, or after the response and before the end of the
\* body), its delays, the status and the content of its answer
PortBehaviours ==
  [stalls : {"never", "response", "body"}, response : PortDelays, body : PortDelays,
   ok : BOOLEAN, content : {GoodAnswer.content}]

PortInputs == [bookmark : {Thought, Quote}, port : PortBehaviours]

NoPortCall == [stage |-> "idle", elapsed |-> 0, timer |-> FALSE]

InitPort ==
  /\ PipelineConstructed
  /\ call = NoPortCall
  /\ args = NoValue
  /\ ret = NoValue

PortStage(stage) == "stage" \in DOMAIN call /\ call.stage = stage

\* _getReasoning calls getReasoning(prompt, { timeout: 20000 }): setTimeout
\* arms the timer and fetch sends the request
StartRequest(input) ==
  /\ PortStage("idle")
  /\ run < MaxPortCalls
  /\ run' = run + 1
  /\ args' = input
  /\ ret' = NoValue
  /\ call' = [stage |-> "fetch", elapsed |-> 0, timer |-> TRUE]
  /\ UNCHANGED <<pc, archive, files, existingIds, bookmarks, cursor, results, outcomes, counts>>

\* time passes while the call is suspended; an armed timer fires before time
\* passes its deadline
Tick ==
  /\ PortStage("fetch") \/ PortStage("body")
  /\ call.elapsed < MaxElapsed
  /\ ~(call.timer /\ call.elapsed >= ReasoningTimeout)
  /\ call' = [call EXCEPT !.elapsed = @ + Quantum]
  /\ UNCHANGED <<args, ret, pipelineVars>>

\* fetch resolves with the response; clearTimeout(timeoutId)
ResponseArrives ==
  /\ PortStage("fetch")
  /\ args.port.stalls # "response"
  /\ call.elapsed >= args.port.response
  /\ call' = [call EXCEPT !.stage = "body", !.timer = FALSE]
  /\ UNCHANGED <<args, ret, pipelineVars>>

\* the request is over with `response` (a body received, or the abort); what
\* is left of getReasoning and _getReasoning runs without suspending
Settled(response) ==
  /\ call' = [call EXCEPT !.stage = "settled", !.timer = FALSE] @@ [response |-> response]
  /\ UNCHANGED <<args, ret, pipelineVars>>

\* the timer fires: controller.abort(), fetch rejects with AbortError, the
\* catch block throws 'OpenRouter timeout after ...', _getReasoning falls back
TimerFires ==
  /\ PortStage("fetch") \/ PortStage("body")
  /\ call.timer
  /\ call.elapsed >= ReasoningTimeout
  /\ Settled(TimedOut)

\* response.json() resolves with the body; the content is parsed, or the
\* error of a failed status is thrown
BodyArrives ==
  /\ PortStage("body")
  /\ args.port.stalls # "body"
  /\ call.elapsed >= args.port.response + args.port.body
  /\ Settled([apiKey |-> TRUE, transport |-> "response", ok |-> args.port.ok,
              body |-> "json", content |-> args.port.content])

\* _parseOutput or the catch blocks: _getReasoning returns the reasoning or
\* the default metadata, _processBookmark goes on and the next bookmark follows
ReturnReasoning ==
  /\ PortStage("settled")
  /\ \E trace \in {ReasoningTrace(args.bookmark, call.response)} : ret' = trace
  /\ call' = NoPortCall
  /\ UNCHANGED <<args, pipelineVars>>

NextPort ==
  \/ \E input \in PortInputs : StartRequest(input)
  \/ Tick
  \/ ResponseArrives
  \/ TimerFires
  \/ BodyArrives
  \/ ReturnReasoning

SpecPort == InitPort /\ [][NextPort]_vars

\* time passes, a response or a body that is due arrives, a timer that is due
\* fires
SpecPortLive ==
  /\ SpecPort
  /\ WF_vars(Tick) /\ WF_vars(ResponseArrives) /\ WF_vars(TimerFires) /\ WF_vars(BodyArrives)

\* C17: every reasoning call is bounded by its timeout: a call under way,
\* waiting for the response or reading its body, settles (with a result or
\* a timeout error, after which the pipeline falls back to default metadata
\* and goes on), so a port that stops responding never hangs the run.
PortCallBounded ==
  (PortStage("fetch") \/ PortStage("body")) ~> PortStage("settled")


\* the i-th bookmark of the first run failed in the file writer: it errored
\* and no document of its id was written (the archive is appended to only
\* after the document was written)
WriterFailedAt(i) ==
  /\ run = 1
  /\ i < cursor
  /\ outcomes[i] = "errored"
  /\ counts[bookmarks[i].id].writes = 0

\* C18: when the file writer fails for a bookmark, the bookmark still yields
\* a ProcessingResult, with filePath null, and the loop goes on.
WriterFailureYieldsResult ==
  \A i \in 1..Len(bookmarks) :
    WriterFailedAt(i) =>
      /\ \E k \in 1..Len(results) : results[k].id = bookmarks[i].id /\ results[k].filePath = Null
      /\ Len(outcomes) = cursor - 1

(***************************************************************************)
(* _generateDefaultMetadata on its own                                     *)
(***************************************************************************)

\* texts that hit each keyword list, two lists at once, none, and the lists
\* of the branch without a link only
DefaultTexts ==
  { "", "Check this out", "nothing special here", "My new repo is live", "GITHUB stars",
    "Watch this video", "great blog post", "new podcast episode", "a handy framework",
    "watch my repo", "podcast app", "totally free this week", "50% discount today",
    "A very long text about nothing in particular that goes on past fifty characters" }

\* no link, a link of no known domain, links of known domains
DefaultLinks ==
  { <<>>, <<Link("https://example.com/page")>>,
    <<[expanded |-> "https://github.com/acme/widget", content |-> [name |-> "acme/widget"]]>>,
    <<[expanded |-> "https://medium.com/@zed/story", content |-> [title |-> "A story"]]>> }

DefaultBookmarks ==
  {[id |-> "41", author |-> "erin", text |-> t, tags |-> <<>>, links |-> l] : t \in DefaultTexts, l \in DefaultLinks}

InitDefaults ==
  /\ PipelineConstructed
  /\ call = "pending"
  /\ args \in DefaultBookmarks
  /\ ret = NoValue

\* one call of _generateDefaultMetadata(bookmark)
GenerateDefaultMetadataCall ==
  /\ call = "pending"
  /\ "text" \in DOMAIN args
  /\ ret' = _generateDefaultMetadata(args)
  /\ call' = "defaults"
  /\ UNCHANGED <<args, pipelineVars>>

NextDefaults == GenerateDefaultMetadataCall

SpecDefaults == InitDefaults /\ [][NextDefaults]_vars

Defaulted == call = "defaults"

\* the primary link is of one of the known domains
DomainMatch(bookmark) ==
  /\ HasLinks(bookmark)
  /\ IncludesAny(bookmark.links[1].expanded,
                 GithubDomains \o ArticleDomains \o YoutubeDomains \o PodcastDomains \o OtherVideoDomains)

\* the text hits one of the five keyword groups (the longer article list)
InKeywordGroups(text) ==
  IncludesAny(ToLowerCase(text), GithubWords \o VideoWords \o ArticleWordsUnlinked \o PodcastWords \o ToolWords)

\* C19: a domain match on the primary link decides the category whatever the
\* text; without a domain match the category depends on the text alone: it
\* is the one the same text gets without any link, and it is 'General' when
\* the text hits none of the five keyword groups.
DefaultCategoryByTextAlone ==
  Defaulted =>
    IF DomainMatch(args)
      THEN ret.category = _generateDefaultMetadata([args EXCEPT !.text = ""]).category
      ELSE /\ ret.category = _generateDefaultMetadata([args EXCEPT !.links = <<>>]).category
           /\ ~InKeywordGroups(args.text) => ret.category = "General"


\* the bookmark with a single github.com link
MatchBookmarks103 == CHOOSE b \in MatchBookmarks : b.id = "103"

\* the registry entries, in registry order, one of whose patterns is in url
EntriesHit(categories, url) ==
  {k \in 1..Len(categories.order) :
     LET rule == categories.rules[categories.order[k]]
     IN \E m \in 1..Len(rule.match) : Includes(url, rule.match[m])}

\* C20: when the key resolved by the label lookup, the keyword scan and the
\* two fallbacks is 'tweet', the links are scanned in order, each against
\* the registry entries in registry order, and the rule returned is the first
\* entry hit by the first link that hits any; the tweet rule is returned only
\* when no link hits any entry.
UrlMatchEscape ==
  (Returned /\ MatchedKey(args.bookmark, args.reasoning) = "tweet") =>
    LET links == BookmarkLinks(args.bookmark)
        hits == {i \in 1..Len(links) : EntriesHit(args.categories, links[i].expanded) # {}}
    IN IF hits # {}
         THEN ret = args.categories.rules[
                      args.categories.order[Min(EntriesHit(args.categories, links[Min(hits)].expanded))]]
         ELSE /\ ret = RegistryLookup(args.categories, "tweet")
              /\ RuleKey(ret) \in {"tweet", Undefined}
              /\ ret.action = "capture"

\* C20 witness: label 'General' on a bookmark whose second link is the first
\* to hit an entry (youtu.be before github.com) gave the youtube rule, and the
\* same label on a github.com link under the registry that lists article
\* first would give that registry's article rule
UrlMatchEscapeWitness ==
  /\ Returned
  /\ MatchedKey(args.bookmark, args.reasoning) = "tweet"
  /\ args.bookmark.id = "105"
  /\ args.categories = DEFAULT_CATEGORIES
  /\ ret = DEFAULT_CATEGORIES.rules.youtube
  /\ _matchCategory(MatchBookmarks103, args.reasoning, ArticleFirstRegistry) = ArticleFirstRegistry.rules.article


\* C21: a bookmark is skipped as a duplicate only if a bookmark of the same
\* id was processed with a result before, in this run or in an earlier one
\* (the archive starts empty): an id that the archive holds only inside the
\* quoted text of another entry never makes a bookmark be skipped.
SkippedOnlyIfProcessed ==
  \A i \in 1..Len(outcomes) :
    outcomes[i] = "skipped" => counts[bookmarks[i].id].results >= 1


\* the results of the run that hold a file path
FiledResults == {i \in 1..Len(results) : results[i].filePath # Null}

\* C22: no filed document is overwritten by another bookmark: two results
\* of different ids with a file path have different file paths, and in a run
\* without a failure on files that were empty before, the documents on disk
\* are as many as the results with a file path.
FiledPathsDistinct ==
  /\ \A i, j \in FiledResults :
       results[i].id # results[j].id => results[i].filePath # results[j].filePath
  /\ (run = 1 /\ \A i \in 1..Len(outcomes) : outcomes[i] # "errored")
       => Cardinality(DOMAIN files) = Cardinality(FiledResults)
====
